---- MODULE Spec2Model ----
(***************************************************************************)
(* Model of the stock-research-agent: the bounded research fan-out and the *)
(* aggregate / recommend / report pipeline (feishu/server.py,              *)
(* scheduler.py), the research record (agents/researcher.py), the          *)
(* portfolio loader and the report extraction (feishu/formatter.py).       *)
(*                                                                         *)
(* Texts are TLA+ strings; offsets returned by the search operators are    *)
(* Python's 0-based offsets, -1 standing for "no match" (None).            *)
(***************************************************************************)
EXTENDS Integers, Sequences, FiniteSets, TLC

VARIABLES
    \* ---- report extraction (feishu/formatter.py) ----
    narrative,      \* analyst_text handed to build_card
    symbols,        \* tickers, trigger and elapsed_seconds handed to build_card
    builds,         \* the calls of build_card so far: time and card returned
    sections,       \* what _split_stock_sections returned, <<>> before the call
    \* ---- one research_stock call (agents/researcher.py) ----
    stock,          \* the holding researched
    lookups,        \* what the three provider lookups returned so far
    replies,        \* what the providers answered to them: data or an exception
    research,       \* the outcome of research_stock, <<>> until it ends
    \* ---- _load_portfolio (feishu/server.py) ----
    all_stocks,     \* the "stocks" list of the portfolio file
    ticker_override,\* the override handed to _load_portfolio
    loaded,         \* what _load_portfolio returned, <<>> before the call
    \* ---- one pipeline run (feishu/server.py, scheduler.py, main.py) ----
    invoker,        \* "webhook" (_run_analysis), "scheduler" (run_and_post), "cli" (main)
    pc,             \* where the invoker's coroutine is
    stocks,         \* the holdings of the run
    task,           \* research_with_limit(stocks[i]): waiting, running, done, raised
    semaphore,      \* the value of asyncio.Semaphore(5)
    slots,          \* the result of each finished task
    outer,          \* the future gather returned, as a record with its state
    research_results,
    stream,         \* analyze_and_recommend: full_text, what was printed, the chunks received
    exc,            \* the exception caught by the invoker's except clause
    calls,          \* how often the aggregator and the recommender were invoked
    sent,           \* the cards handed to bot.reply_card / bot.send_card, in order
    handled,        \* the other requests the event loop has served during the run
    \* ---- the message handler (feishu/server.py) ----
    message,        \* the "message" of the event handed to _handle_message
    reaction,       \* what _handle_message did with it, <<>> before it ends
    \* ---- the token cache (feishu/bot.py) ----
    token_cache,    \* _token_cache: token and expires_at
    clock,          \* time.time(), in seconds
    token_call,     \* the call of _get_tenant_access_token under way or just ended
    \* ---- overlapping webhook runs (feishu/server.py) ----
    runs            \* one record per _run_pipeline started: its semaphore and tasks

xvars == <<narrative, symbols, builds, sections>>
rvars == <<stock, lookups, replies, research>>
lvars == <<all_stocks, ticker_override, loaded>>
pvars == <<invoker, pc, stocks, task, semaphore, slots, outer, research_results,
           stream, exc, calls, sent, handled>>
mvars == <<message, reaction>>
tvars == <<token_cache, clock, token_call>>
uvars == <<runs>>
svars == <<mvars, tvars, uvars>>
vars == <<xvars, rvars, lvars, pvars, svars>>

\* ------------------------------------------------------------------------
\* Python values: numbers, strings and None, told apart by a tag
\* ------------------------------------------------------------------------

Null == [t |-> "null"]
Num(v) == [t |-> "num", v |-> v]
Str(v) == [t |-> "str", v |-> v]

\* bool(x)
Truthy(x) ==
    CASE x.t = "null" -> FALSE
      [] x.t = "num" -> x.v # 0
      [] x.t = "str" -> x.v # ""

\* dict.get(key), None when the key is missing
Get(d, key) == IF key \in DOMAIN d THEN d[key] ELSE Null

\* ------------------------------------------------------------------------
\* Characters and strings
\* ------------------------------------------------------------------------

Ch(s, i) == SubSeq(s, i, i)

UpperAlpha == "ABCDEFGHIJKLMNOPQRSTUVWXYZ"
LowerAlpha == "abcdefghijklmnopqrstuvwxyz"
DigitChars == "0123456789"

CharsOf(s) == {Ch(s, i) : i \in 1..Len(s)}

\* str.lower() / re.IGNORECASE on ASCII letters
LowerOf == [c \in CharsOf(UpperAlpha) |->
              Ch(LowerAlpha, CHOOSE k \in 1..Len(UpperAlpha) : Ch(UpperAlpha, k) = c)]
UpperOf == [c \in CharsOf(LowerAlpha) |->
              Ch(UpperAlpha, CHOOSE k \in 1..Len(LowerAlpha) : Ch(LowerAlpha, k) = c)]

LowerCh(c) == IF c \in DOMAIN LowerOf THEN LowerOf[c] ELSE c
UpperCh(c) == IF c \in DOMAIN UpperOf THEN UpperOf[c] ELSE c

\* str.lower() and str.upper(), by halves to keep the evaluation shallow
RECURSIVE Lower(_)
Lower(s) ==
    IF Len(s) = 0 THEN ""
    ELSE IF Len(s) = 1 THEN LowerCh(s)
    ELSE Lower(SubSeq(s, 1, Len(s) \div 2)) \o Lower(SubSeq(s, Len(s) \div 2 + 1, Len(s)))

RECURSIVE Upper(_)
Upper(s) ==
    IF Len(s) = 0 THEN ""
    ELSE IF Len(s) = 1 THEN UpperCh(s)
    ELSE Upper(SubSeq(s, 1, Len(s) \div 2)) \o Upper(SubSeq(s, Len(s) \div 2 + 1, Len(s)))

\* str.capitalize()
Capitalize(s) == IF s = "" THEN "" ELSE UpperCh(Head(s)) \o Lower(Tail(s))

\* the regular expression classes \s and \w
SpaceChars == {" ", "\n", "\t", "\r", "\f"}
WordChars == CharsOf(UpperAlpha) \cup CharsOf(LowerAlpha) \cup CharsOf(DigitChars) \cup {"_"}
IsSpace(c) == c \in SpaceChars
IsWord(c) == c \in WordChars

\* the literal pat occurs in t at the 1-based position p
EqualAt(t, p, pat) ==
    /\ p >= 1
    /\ p + Len(pat) - 1 <= Len(t)
    /\ SubSeq(t, p, p + Len(pat) - 1) = pat

\* the first position >= p of t whose character is not in class, Len(t)+1 if none
RunEnd(t, p, class) ==
    LET out == {q \in p..Len(t) : Ch(t, q) \notin class}
    IN  IF out = {} THEN Len(t) + 1 ELSE CHOOSE q \in out : \A r \in out : q <= r

\* the least p in from..to at which Hit(p) holds, 0 if none
FirstPos(from, to, Hit(_)) ==
    LET hits == {p \in from..to : Hit(p)}
    IN  IF hits = {} THEN 0 ELSE CHOOSE p \in hits : \A q \in hits : p <= q

\* str.strip()
Strip(s) ==
    LET ink == {i \in 1..Len(s) : ~IsSpace(Ch(s, i))}
    IN  IF ink = {} THEN ""
        ELSE SubSeq(s, CHOOSE i \in ink : \A j \in ink : i <= j,
                       CHOOSE i \in ink : \A j \in ink : i >= j)

\* a slice that keeps everything
TakeAll(s, n) == s

\* s[:n]
Take(s, n) == IF Len(s) <= n THEN s ELSE SubSeq(s, 1, n)
\* s[a:b] for 0 <= a <= b <= len(s)
Slice(s, a, b) == SubSeq(s, a + 1, b)

\* ------------------------------------------------------------------------
\* feishu/formatter.py: the field extractors
\* ------------------------------------------------------------------------

ReasoningLimit == 400
OverallLimit == 800

\* rf"#{1,3}\s*\*{{0,2}}TICKER\*{{0,2}}": inside the f-string {1,3} is a
\* replacement field, the tuple (1, 3), so the pattern re.search receives is
\* "#(1, 3)\s*\*{0,2}TICKER\*{0,2}": a "#", the group "1, 3", spaces, asterisks
HeadingPrefix == "#1, 3"

HeadingMarkerAt(t, p, tk) ==
    /\ EqualAt(t, p, HeadingPrefix)
    /\ LET k == Len(HeadingPrefix)
       IN  \E w \in 0..(RunEnd(t, p + k, SpaceChars) - (p + k)) :
             \E m \in 0..2 :
               /\ \A j \in 0..(m - 1) : EqualAt(t, p + k + w + j, "*")
               /\ EqualAt(t, p + k + w + m, tk)

\* "^\*\*TICKER\*\*" (re.MULTILINE) matches at position p of the lowered text
BoldMarkerAt(t, p, tk) ==
    /\ (p = 1 \/ EqualAt(t, p - 1, "\n"))
    /\ EqualAt(t, p, "**" \o tk \o "**")

MarkerAt(t, p, tk) == HeadingMarkerAt(t, p, tk) \/ BoldMarkerAt(t, p, tk)

\* re.search(pattern, text, re.IGNORECASE | re.MULTILINE).start(), -1 for None
MarkerSearch(text, ticker) ==
    LET t == Lower(text)
        tk == Lower(ticker)
        Hit(p) == MarkerAt(t, p, tk)
    IN  FirstPos(1, Len(t) + 1, Hit) - 1

\* a dict as the sequence of its <<key, value>> items in insertion order
DictKeys(d) == {d[i][1] : i \in 1..Len(d)}
DictGet(d, k) == d[CHOOSE i \in 1..Len(d) : d[i][1] = k][2]
DictSet(d, k, v) ==
    IF k \in DictKeys(d)
    THEN [i \in 1..Len(d) |-> IF d[i][1] = k THEN <<k, v>> ELSE d[i]]
    ELSE Append(d, <<k, v>>)

\* the section of tickers[i]
\* a split whose fallback for a ticker without marker is the empty text
StockSectionOrEmpty(text, tickers, i) ==
    LET start == MarkerSearch(text, tickers[i])
    IN  IF start >= 0
        THEN IF i + 1 <= Len(tickers)
             THEN LET next_match ==
                          MarkerSearch(Slice(text, start + 1, Len(text)), tickers[i + 1])
                      end == IF next_match >= 0 THEN start + 1 + next_match ELSE Len(text)
                  IN  Slice(text, start, end)
             ELSE Slice(text, start, Len(text))
        ELSE ""

\* a variant that looks for the next ticker's marker from the start of the text
StockSectionNextFromStart(text, tickers, i) ==
    LET start == MarkerSearch(text, tickers[i])
    IN  IF start >= 0
        THEN IF i + 1 <= Len(tickers)
             THEN LET next_match == MarkerSearch(text, tickers[i + 1])
                      end == IF next_match >= 0 THEN next_match ELSE Len(text)
                  IN  Slice(text, start, end)
             ELSE Slice(text, start, Len(text))
        ELSE text

StockSection(text, tickers, i) ==
    LET start == MarkerSearch(text, tickers[i])
    IN  IF start >= 0
        THEN IF i + 1 <= Len(tickers)
             THEN LET next_match ==
                          MarkerSearch(Slice(text, start + 1, Len(text)), tickers[i + 1])
                      end == IF next_match >= 0 THEN start + 1 + next_match ELSE Len(text)
                  IN  Slice(text, start, end)
             ELSE Slice(text, start, Len(text))
        ELSE text

\* a split that keeps only the tickers that have a marker
RECURSIVE SplitMarkedFrom(_, _, _, _)
SplitMarkedFrom(text, tickers, i, result) ==
    IF i > Len(tickers) THEN result
    ELSE SplitMarkedFrom(text, tickers, i + 1,
                         IF MarkerSearch(text, tickers[i]) >= 0
                         THEN DictSet(result, tickers[i], StockSection(text, tickers, i))
                         ELSE result)

RECURSIVE SplitFrom(_, _, _, _)
SplitFrom(text, tickers, i, result) ==
    IF i > Len(tickers) THEN result
    ELSE SplitFrom(text, tickers, i + 1,
                   DictSet(result, tickers[i], StockSection(text, tickers, i)))

_split_stock_sections(text, tickers) == SplitFrom(text, tickers, 1, <<>>)

\* "\b(BUY|HOLD|SELL)\b", re.IGNORECASE
Verdicts == <<"buy", "hold", "sell">>

\* a match of the word without the \b on either side
WordAtLoose(t, p, w) == EqualAt(t, p, w)

WordAt(t, p, w) ==
    /\ EqualAt(t, p, w)
    /\ (p = 1 \/ ~IsWord(Ch(t, p - 1)))
    /\ (p + Len(w) > Len(t) \/ ~IsWord(Ch(t, p + Len(w))))

_extract_recommendation(text) ==
    LET t == Lower(text)
        Hit(p) == \E k \in 1..Len(Verdicts) : WordAt(t, p, Verdicts[k])
        p == FirstPos(1, Len(t), Hit)
    IN  IF p = 0 THEN "N/A"
        ELSE Upper(Verdicts[CHOOSE k \in 1..Len(Verdicts) : WordAt(t, p, Verdicts[k])])

\* "Confidence[:\s*_]*\**(High|Medium|Low)\**", re.IGNORECASE
Levels == <<"high", "medium", "low">>
ConfidenceFill == SpaceChars \cup {":", "*", "_"}

ConfidenceAt(t, p, level) ==
    /\ EqualAt(t, p, "confidence")
    /\ EqualAt(t, RunEnd(t, p + Len("confidence"), ConfidenceFill), level)

_extract_confidence(text) ==
    LET t == Lower(text)
        Hit(p) == \E k \in 1..Len(Levels) : ConfidenceAt(t, p, Levels[k])
        p == FirstPos(1, Len(t), Hit)
    IN  IF p = 0 THEN "N/A"
        ELSE Capitalize(Levels[CHOOSE k \in 1..Len(Levels) : ConfidenceAt(t, p, Levels[k])])

\* the lookahead "(?=\n\s*[-*#\n]|\Z)" holds at position e
SectionEndAt(t, e) ==
    \/ e = Len(t) + 1
    \/ /\ EqualAt(t, e, "\n")
       /\ LET r == RunEnd(t, e + 1, SpaceChars)
          IN  \/ (r <= Len(t) /\ Ch(t, r) \in {"-", "*", "#"})
              \/ \E j \in (e + 1)..(r - 1) : Ch(t, j) = "\n"

\* "\*{0,2}LABEL\*{0,2}[:\s]+(.+?)" tried at position p with a leading and b
\* trailing asterisks: the position where group 1 starts, 0 when it fails
SectionGroupAt(t, p, lab, a, b) ==
    LET q == p + a + Len(lab) + b
        r == RunEnd(t, q, SpaceChars \cup {":"})
        g == IF r > Len(t) THEN Len(t) ELSE r
    IN  IF /\ EqualAt(t, p + a, lab)
           /\ \A j \in 0..(a - 1) : EqualAt(t, p + j, "*")
           /\ \A j \in 0..(b - 1) : EqualAt(t, q - b + j, "*")
           /\ g > q
        THEN g ELSE 0

\* the greedy quantifiers try 2, 1, 0 asterisks in that order
StarTries == <<2, 1, 0>>

SectionStartAt(t, p, lab) ==
    LET Try(n) == SectionGroupAt(t, p, lab, StarTries[((n - 1) \div 3) + 1],
                                 StarTries[((n - 1) % 3) + 1])
        Hit(n) == Try(n) > 0
        n == FirstPos(1, 9, Hit)
    IN  IF n = 0 THEN 0 ELSE Try(n)

_extract_section(text, label) ==
    LET t == Lower(text)
        lab == Lower(label)
        Hit(p) == /\ \E a \in 0..2 : EqualAt(t, p + a, lab)
                  /\ SectionStartAt(t, p, lab) > 0
        p == FirstPos(1, Len(t), Hit)
    IN  IF p = 0 THEN ""
        ELSE LET g == SectionStartAt(t, p, lab)
                 End(e) == SectionEndAt(t, e)
                 e == FirstPos(g + 1, Len(t) + 1, End)
             IN  Take(Strip(SubSeq(text, g, e - 1)), ReasoningLimit)

\* "OVERALL PORTFOLIO ASSESSMENT(.+?)(?=\Z)", re.IGNORECASE | re.DOTALL
OverallMarker == "overall portfolio assessment"

_extract_overall_assessment(text) ==
    LET t == Lower(text)
        Hit(p) == EqualAt(t, p, OverallMarker) /\ p + Len(OverallMarker) <= Len(t)
        p == FirstPos(1, Len(t), Hit)
    IN  IF p = 0 THEN ""
        ELSE Take(Strip(SubSeq(text, p + Len(OverallMarker), Len(text))), OverallLimit)

\* ------------------------------------------------------------------------
\* feishu/formatter.py: build_card
\* ------------------------------------------------------------------------

\* round(num / den) to the nearest integer, ties to even (num >= 0, den > 0)
RoundHalfEven(num, den) ==
    LET q == num \div den
        r == num % den
    IN  IF 2 * r < den THEN q
        ELSE IF 2 * r > den THEN q + 1
        ELSE IF q % 2 = 0 THEN q ELSE q + 1

_REC_COLORS(rec) ==
    CASE rec = "BUY" -> "green"
      [] rec = "HOLD" -> "yellow"
      [] rec = "SELL" -> "red"
      [] OTHER -> "default"

_CONFIDENCE_ICONS(confidence) ==
    CASE confidence = "High" -> "green circle"
      [] confidence = "Medium" -> "yellow circle"
      [] confidence = "Low" -> "red circle"
      [] OTHER -> ""

\* the clock counts ticks; strftime("%Y-%m-%d %H:%M") keeps the minute
TicksPerMinute == 2
\* a timestamp that keeps the ticks below the minute
date_ticks(now) == now

date_str(now) == now \div TicksPerMinute

\* elapsed_seconds is kept in tenths of a second; f"{elapsed_seconds:.0f}s"
TenthsPerSecond == 10
elapsed_str(elapsed_seconds) == RoundHalfEven(elapsed_seconds, TenthsPerSecond)

\* A lark_md content is kept as the tuple of the values interpolated into it.
\* The elements build_card appends for one item of stock_blocks
\* a variant in which a section without a Reasoning label loses its verdict too
StockElementsAllOrNothing(ticker, block_text) ==
    LET reasoning == _extract_section(block_text, "Reasoning")
        rec == IF reasoning = "" THEN "N/A" ELSE _extract_recommendation(block_text)
        color == _REC_COLORS(rec)
        confidence == _extract_confidence(block_text)
        conf_icon == _CONFIDENCE_ICONS(confidence)
        risk == _extract_section(block_text, "Key Risk")
    IN  <<[tag |-> "column_set", content |-> <<ticker, color, rec, conf_icon, confidence>>]>>
        \o (IF reasoning # "" \/ risk # ""
            THEN <<[tag |-> "div", content |-> <<reasoning, risk>>]>>
            ELSE <<>>)
        \o <<[tag |-> "hr", content |-> <<>>]>>

StockElements(ticker, block_text) ==
    LET rec == _extract_recommendation(block_text)
        color == _REC_COLORS(rec)
        confidence == _extract_confidence(block_text)
        conf_icon == _CONFIDENCE_ICONS(confidence)
        reasoning == _extract_section(block_text, "Reasoning")
        risk == _extract_section(block_text, "Key Risk")
    IN  <<[tag |-> "column_set", content |-> <<ticker, color, rec, conf_icon, confidence>>]>>
        \o (IF reasoning # "" \/ risk # ""
            THEN <<[tag |-> "div", content |-> <<reasoning, risk>>]>>
            ELSE <<>>)
        \o <<[tag |-> "hr", content |-> <<>>]>>

RECURSIVE BlockElements(_, _)
BlockElements(stock_blocks, i) ==
    IF i > Len(stock_blocks) THEN <<>>
    ELSE StockElements(stock_blocks[i][1], stock_blocks[i][2])
         \o BlockElements(stock_blocks, i + 1)

\* lines 50-113: the elements appended before the footer
card_elements(analyst_text, tickers) ==
    LET stock_blocks == _split_stock_sections(analyst_text, tickers)
        overall == _extract_overall_assessment(analyst_text)
    IN  BlockElements(stock_blocks, 1)
        \o (IF overall # ""
            THEN <<[tag |-> "div", content |-> <<overall>>],
                   [tag |-> "hr", content |-> <<>>]>>
            ELSE <<>>)

\* lines 47 and 115-141: the date, the footer note and the card around the elements
card_around(elements, trigger, elapsed_seconds, now) ==
    LET footer_parts == <<trigger, date_str(now)>>
                        \o (IF elapsed_seconds # 0
                            THEN <<elapsed_str(elapsed_seconds)>> ELSE <<>>)
    IN  [header |-> date_str(now),
         elements |-> elements \o <<[tag |-> "note", content |-> footer_parts]>>]

build_card(analyst_text, tickers, trigger, elapsed_seconds, now) ==
    card_around(card_elements(analyst_text, tickers), trigger, elapsed_seconds, now)

\* ------------------------------------------------------------------------
\* tools/yfinance_client.py, tools/finnhub_client.py: the provider lookups.
\* Prices are in thousandths of a dollar as the provider gives them and in
\* cents once rounded to 2 decimals; percentages are in hundredths of a percent.
\* ------------------------------------------------------------------------

MilliPerCent == 10
PctScale == 10000
NewsLimit == 6

\* round((a - b) / b * 100, 2) for b > 0, in hundredths of a percent
PctChange(a, b) == RoundHalfEven((a - b) * PctScale, b)

\* get_stock_context: resp is what yfinance answers, [raises |-> msg] or
\* [hist |-> the closes of the month, oldest first]
get_stock_context(resp) ==
    IF "raises" \in DOMAIN resp THEN [error |-> Str(resp.raises)]
    ELSE LET hist == resp.hist
             current_price == IF hist # <<>> THEN Num(hist[Len(hist)]) ELSE Null
             month_ago_price == IF hist # <<>> THEN Num(hist[1]) ELSE Null
         IN  [current_price |->
                  IF Truthy(current_price)
                  THEN Num(RoundHalfEven(current_price.v, MilliPerCent)) ELSE Null,
              price_change_1mo_pct |->
                  IF Truthy(current_price) /\ Truthy(month_ago_price)
                  THEN Num(PctChange(current_price.v, month_ago_price.v)) ELSE Null]

\* a news lookup that answers an exception with an empty list
get_company_news_silent(resp) ==
    IF "raises" \in DOMAIN resp THEN <<>>
    ELSE [i \in 1..(IF Len(resp.news) < NewsLimit THEN Len(resp.news) ELSE NewsLimit) |->
              [headline |-> Str(resp.news[i])]]

\* get_company_news: resp is [raises |-> msg] or [news |-> the headlines]
get_company_news(resp) ==
    IF "raises" \in DOMAIN resp THEN <<[error |-> Str(resp.raises)]>>
    ELSE [i \in 1..(IF Len(resp.news) < NewsLimit THEN Len(resp.news) ELSE NewsLimit) |->
              [headline |-> Str(resp.news[i])]]

\* get_analyst_recommendations: resp is [raises |-> msg] or
\* [recs |-> the periods, latest first]
get_analyst_recommendations(resp) ==
    IF "raises" \in DOMAIN resp THEN [error |-> Str(resp.raises)]
    ELSE IF resp.recs = <<>> THEN [empty |-> Null]
    ELSE [period |-> Str(resp.recs[1])]

\* ------------------------------------------------------------------------
\* agents/researcher.py: research_stock
\* ------------------------------------------------------------------------

\* a condition that looks at the price only
DividesOnPrice(current_price, avg_cost) == Truthy(current_price)

\* the conditional expression of lines 20-24 evaluates the division
Divides(current_price, avg_cost) == Truthy(current_price) /\ Truthy(avg_cost)

\* current_price - avg_cost raises TypeError when avg_cost is not a number
PnlRaises(current_price, avg_cost) ==
    Divides(current_price, avg_cost) /\ avg_cost.t # "num"

\* ... / avg_cost raises ZeroDivisionError when avg_cost is the number 0
PnlDividesByZero(current_price, avg_cost) ==
    Divides(current_price, avg_cost) /\ avg_cost.t = "num" /\ avg_cost.v = 0

unrealized_pnl_pct(current_price, avg_cost) ==
    IF Divides(current_price, avg_cost)
    THEN Num(PctChange(current_price.v, avg_cost.v))
    ELSE Null

\* what research_stock does once the three lookups have returned:
\* [raised |-> message] or [value |-> the research record]
research_stock(s, news, recommendations, context) ==
    LET current_price == Get(context, "current_price")
        avg_cost == Get(s, "avg_cost")
    IN  IF PnlRaises(current_price, avg_cost)
        THEN [raised |-> "unsupported operand type(s) for -: 'float' and 'str'"]
        ELSE IF PnlDividesByZero(current_price, avg_cost)
        THEN [raised |-> "float division by zero"]
        ELSE [value |->
                 [ticker |-> s.ticker,
                  shares |-> Get(s, "shares"),
                  avg_cost |-> avg_cost,
                  unrealized_pnl_pct |-> unrealized_pnl_pct(current_price, avg_cost),
                  price_context |-> context,
                  recent_news |-> news,
                  analyst_recommendations |-> recommendations]]

\* ------------------------------------------------------------------------
\* feishu/server.py: _load_portfolio
\* ------------------------------------------------------------------------

\* a lookup that never finds the ticker
PortfolioMapMiss(listed, t, default) == default

\* portfolio_map = {s["ticker"]: s for s in all_stocks}: the last entry of a ticker wins
PortfolioMapGet(listed, t, default) ==
    LET at == {i \in 1..Len(listed) : listed[i].ticker = t}
    IN  IF at = {} THEN default ELSE listed[CHOOSE i \in at : \A j \in at : i >= j]

\* override is <<>> for None, else <<the list of tickers>>; listed is the "stocks"
\* list read from the portfolio file
_load_portfolio(override, listed) ==
    IF override # <<>> /\ override[1] # <<>>
    THEN [i \in 1..Len(override[1]) |->
             PortfolioMapGet(listed, override[1][i],
                             [ticker |-> override[1][i], shares |-> Num(0), avg_cost |-> Num(0)])]
    ELSE listed

\* ------------------------------------------------------------------------
\* What the models below draw their inputs from
\* ------------------------------------------------------------------------

Holding(t, shares, cost) == [ticker |-> t, shares |-> Num(shares), avg_cost |-> cost]

\* the holdings a portfolio file may list; avg_cost in cents, one of them
\* written as a string, one null
Listing == <<
    Holding("AAA", 10, Num(15000)),
    Holding("BBB", 5, Str("42.50")),
    Holding("CCC", 2, Num(1000)),
    Holding("DDD", 1, Null),
    Holding("EEE", 7, Num(3)),
    Holding("FFF", 3, Str("7.25")),
    Holding("GGG", 4, Num(0)),
    Holding("HHH", 8, Num(20000)),
    Holding("AAA", 1, Num(9000))
>>

\* server.py 173: the holding _load_portfolio makes up for a symbol that the
\* portfolio does not list
Synthesized == _load_portfolio(<< <<"ZZZ">> >>, <<>>)[1]

\* a holding that the portfolio file lists without an avg_cost
NoCost == [ticker |-> "III", shares |-> Num(3)]

IdleExtract == narrative = "" /\ symbols = <<>> /\ builds = <<>> /\ sections = <<>>
IdleResearch == stock = <<>> /\ lookups = <<>> /\ replies = <<>> /\ research = <<>>
IdleLoad == all_stocks = <<>> /\ ticker_override = <<>> /\ loaded = <<>>
IdleCommand == message = <<>> /\ reaction = <<>>
IdleToken == token_cache = <<>> /\ clock = 0 /\ token_call = <<>>
IdleRuns == runs = <<>>
IdleServer == IdleCommand /\ IdleToken /\ IdleRuns
IdlePipeline ==
    /\ invoker = "" /\ pc = "" /\ stocks = <<>> /\ task = <<>> /\ semaphore = 0
    /\ slots = <<>> /\ outer = [state |-> "none"] /\ research_results = <<>>
    /\ stream = [state |-> "none"] /\ exc = <<>> /\ calls = <<>> /\ sent = <<>>
    /\ handled = 0

\* ------------------------------------------------------------------------
\* The report extraction on its own: a narrative is received chunk by chunk
\* (the blocks of the model's answer, each at most once, in any order),
\* then build_card is called on it, possibly again later.
\* ------------------------------------------------------------------------

MaxChunks == 3
MaxClock == 2
MaxBuilds == 2

Chunks == {
    "**AAA**\nBUY\nConfidence: High\n**Reasoning:** strong earnings\n**Key Risk:** rate hikes\n",
    "**BBB**\nSELL\nConfidence: Low\n",
    "OVERALL PORTFOLIO ASSESSMENT\nConcentrated in tech."
}

\* the arguments build_card is called with, besides the text
BuildArgs == {
    [tickers |-> <<"AAA", "BBB">>, trigger |-> "manual", elapsed_seconds |-> 425],
    [tickers |-> <<"BBB", "ZZZ", "AAA", "BBB">>, trigger |-> "scheduled", elapsed_seconds |-> 0],
    [tickers |-> <<"A.A", "BBB">>, trigger |-> "manual", elapsed_seconds |-> 0],
    [tickers |-> <<>>, trigger |-> "scheduled", elapsed_seconds |-> 425]
}

\* pat occurs somewhere in t
Occurs(t, pat) == \E p \in 1..Len(t) : EqualAt(t, p, pat)

\* narrative is a pair: the text received and the number of chunks in it
InitExtract ==
    /\ narrative = [text |-> "", chunks |-> 0]
    /\ symbols \in BuildArgs
    /\ builds = <<>>
    /\ sections = <<>>
    /\ IdleResearch /\ IdleLoad /\ IdlePipeline /\ IdleServer

\* analyst.py:60  full_text += delta
ReceiveChunk(delta) ==
    /\ builds = <<>>
    /\ narrative.chunks < MaxChunks
    /\ narrative' = [text |-> narrative.text \o delta, chunks |-> narrative.chunks + 1]
    /\ UNCHANGED <<symbols, builds, sections, rvars, svars, lvars, pvars>>

\* build_card(analyst_text, tickers, trigger, elapsed_seconds) called at some
\* time now, not before the previous call
BuildCard ==
    /\ Len(builds) < MaxBuilds
    /\ LET elements == card_elements(narrative.text, symbols.tickers)
       IN  \E now \in 0..MaxClock :
              /\ builds # <<>> => now >= builds[Len(builds)].now
              /\ builds' = Append(builds,
                                  [now |-> now,
                                   card |-> card_around(elements, symbols.trigger,
                                                        symbols.elapsed_seconds, now)])
    /\ UNCHANGED <<narrative, symbols, sections, rvars, svars, lvars, pvars>>

NextExtract ==
    \/ \E delta \in Chunks : ~Occurs(narrative.text, delta) /\ ReceiveChunk(delta)
    \/ BuildCard

SpecExtract == InitExtract /\ [][NextExtract]_vars

\* ------------------------------------------------------------------------
\* The report extraction on long narratives: the model's answer opens with a
\* section in lower or mixed case, then long paragraphs and labels follow
\* ------------------------------------------------------------------------

Block50 == "demand is strong while the margins widen further. "
Block150 == Block50 \o Block50 \o Block50
Paragraph == Block150 \o Block150 \o Block150

LongHeads == {
    "**AAA**\nbuy\nconfidence: high\n**Reasoning:** ",
    "**AAA**\nConfidence: LOW\nsell\nOVERALL PORTFOLIO ASSESSMENT\n"
}

LongChunks == {Paragraph, "\n**Key Risk:** "}

InitLong ==
    /\ narrative \in {[text |-> h, chunks |-> 0] : h \in LongHeads}
    /\ symbols = [tickers |-> <<"AAA">>, trigger |-> "manual", elapsed_seconds |-> 0]
    /\ builds = <<>>
    /\ sections = <<>>
    /\ IdleResearch /\ IdleLoad /\ IdlePipeline /\ IdleServer

NextLong ==
    \/ \E delta \in LongChunks : ReceiveChunk(delta)
    \/ builds = <<>> /\ BuildCard

SpecLong == InitLong /\ [][NextLong]_vars

\* ------------------------------------------------------------------------
\* The section search on its own: a narrative is put together from lines
\* that introduce a symbol in different ways, then split
\* ------------------------------------------------------------------------

\* a bold line, a bold line in lower case, a markdown heading, a bold token
\* inside a line, and a line that starts with the text the heading pattern
\* of the code stands for
SplitChunks == {
    "**AAA**\nBUY\n",
    "**bbb**\nConfidence: Low\nSELL\n",
    "## AAA\nholdings up\n",
    "see **BBB**\n",
    "#1, 3 BBB\nConfidence: High\n"
}

SplitArgs == {
    [tickers |-> <<"AAA", "BBB">>, trigger |-> "manual", elapsed_seconds |-> 0],
    [tickers |-> <<"BBB", "AAA">>, trigger |-> "manual", elapsed_seconds |-> 0],
    [tickers |-> <<"AAA", "ZZZ", "BBB">>, trigger |-> "manual", elapsed_seconds |-> 0],
    [tickers |-> <<"AAA", "BBB", "AAA">>, trigger |-> "manual", elapsed_seconds |-> 0]
}

InitSplit ==
    /\ narrative = [text |-> "", chunks |-> 0]
    /\ symbols \in SplitArgs
    /\ builds = <<>>
    /\ sections = <<>>
    /\ IdleResearch /\ IdleLoad /\ IdlePipeline /\ IdleServer

\* formatter.py 50: stock_blocks = _split_stock_sections(analyst_text, tickers)
Split ==
    /\ sections = <<>>
    /\ sections' = <<_split_stock_sections(narrative.text, symbols.tickers)>>
    /\ UNCHANGED <<narrative, symbols, builds, rvars, svars, lvars, pvars>>

NextSplit ==
    \/ \E delta \in SplitChunks : sections = <<>> /\ ReceiveChunk(delta)
    \/ Split

SpecSplit == InitSplit /\ [][NextSplit]_vars

\* ------------------------------------------------------------------------
\* One research_stock call: the three lookups run in worker threads and
\* return in any order; the record is assembled when all three are in.
\* ------------------------------------------------------------------------

MaxListing == 7

\* closes of the month, in thousandths of a dollar (none halfway between two
\* cents: how round() breaks such a tie depends on the binary float)
ContextResponses == {
    [raises |-> "timeout"],
    [hist |-> <<>>],
    [hist |-> <<12000, 0>>],
    [hist |-> <<12000, 4>>],
    [hist |-> <<12000, 14996>>],
    [hist |-> <<150000, 175004>>]
}
NewsResponses == {[raises |-> "rate limit"], [news |-> <<"h1", "h2">>]}
RecsResponses == {[raises |-> "rate limit"], [recs |-> <<>>], [recs |-> <<"2024-05">>]}

InitResearch ==
    /\ stock \in {Listing[i] : i \in 1..MaxListing} \cup {Synthesized, NoCost}
    /\ lookups = [news |-> <<>>, recommendations |-> <<>>, context |-> <<>>]
    /\ replies = [news |-> <<>>, recommendations |-> <<>>, context |-> <<>>]
    /\ research = <<>>
    /\ IdleExtract /\ IdleLoad /\ IdlePipeline /\ IdleServer

\* asyncio.to_thread(get_company_news, ticker) returns
NewsReturns(resp) ==
    /\ lookups.news = <<>>
    /\ lookups' = [lookups EXCEPT !.news = <<get_company_news(resp)>>]
    /\ replies' = [replies EXCEPT !.news = <<resp>>]
    /\ UNCHANGED <<stock, research, xvars, svars, lvars, pvars>>

\* asyncio.to_thread(get_analyst_recommendations, ticker) returns
RecsReturn(resp) ==
    /\ lookups.recommendations = <<>>
    /\ lookups' = [lookups EXCEPT !.recommendations = <<get_analyst_recommendations(resp)>>]
    /\ replies' = [replies EXCEPT !.recommendations = <<resp>>]
    /\ UNCHANGED <<stock, research, xvars, svars, lvars, pvars>>

\* asyncio.to_thread(get_stock_context, ticker) returns
ContextReturns(resp) ==
    /\ lookups.context = <<>>
    /\ lookups' = [lookups EXCEPT !.context = <<get_stock_context(resp)>>]
    /\ replies' = [replies EXCEPT !.context = <<resp>>]
    /\ UNCHANGED <<stock, research, xvars, svars, lvars, pvars>>

\* the inner gather is complete: lines 18-34
Assemble ==
    /\ research = <<>>
    /\ lookups.news # <<>> /\ lookups.recommendations # <<>> /\ lookups.context # <<>>
    /\ research' = <<research_stock(stock, lookups.news[1], lookups.recommendations[1],
                                    lookups.context[1])>>
    /\ UNCHANGED <<stock, lookups, replies, xvars, svars, lvars, pvars>>

NextResearch ==
    \/ \E resp \in NewsResponses : NewsReturns(resp)
    \/ \E resp \in RecsResponses : RecsReturn(resp)
    \/ \E resp \in ContextResponses : ContextReturns(resp)
    \/ Assemble

SpecResearch == InitResearch /\ [][NextResearch]_vars

\* ------------------------------------------------------------------------
\* _load_portfolio on its own
\* ------------------------------------------------------------------------

MaxOverride == 2

\* the portfolio files: the first n holdings of the listing, and the whole
\* listing, in which AAA is listed twice
PortfolioFiles == {SubSeq(Listing, 1, n) : n \in {0, 1, 3}} \cup {Listing}

RECURSIVE TickerLists(_)
TickerLists(n) ==
    IF n = 0 THEN {<<>>}
    ELSE TickerLists(n - 1)
         \cup {Append(l, t) : l \in {m \in TickerLists(n - 1) : Len(m) = n - 1},
                              t \in {"AAA", "CCC", "GGG", "ZZZ"}}

InitLoad ==
    /\ all_stocks \in PortfolioFiles
    /\ ticker_override \in {<<>>} \cup {<<l>> : l \in TickerLists(MaxOverride)}
    /\ loaded = <<>>
    /\ IdleExtract /\ IdleResearch /\ IdlePipeline /\ IdleServer

LoadPortfolio ==
    /\ loaded = <<>>
    /\ loaded' = <<_load_portfolio(ticker_override, all_stocks)>>
    /\ UNCHANGED <<all_stocks, ticker_override, xvars, rvars, svars, pvars>>

NextLoad == LoadPortfolio

SpecLoad == InitLoad /\ [][NextLoad]_vars

\* ------------------------------------------------------------------------
\* One pipeline run: acknowledgement, bounded fan-out of research_stock,
\* aggregator, recommender stream, report card, and the except clause of the
\* invoker (feishu/server.py _run_analysis and _run_pipeline, scheduler.py
\* run_and_post, main.py main).
\* ------------------------------------------------------------------------

SemaphoreValue == 5
MaxHoldings == 6
MaxStream == 2

build_ack_card(tickers) == [header |-> "Running Analysis...", tickers |-> tickers]

\* an error card that does not say what failed
build_error_card_generic(error_message, trigger, now) ==
    [header |-> "Analysis Failed", error |-> "Something went wrong", trigger |-> trigger,
     date |-> date_str(now)]

build_error_card(error_message, trigger, now) ==
    [header |-> "Analysis Failed", error |-> error_message, trigger |-> trigger,
     date |-> date_str(now)]

\* [s["ticker"] for s in portfolio]
TickersOf(list) == [i \in 1..Len(list) |-> list[i].ticker]

\* str(exc)
StrExc(e) == e.message

\* trigger="manual" in _run_analysis, kwargs={"trigger": "scheduled"} in scheduler.main
Trigger == IF invoker = "webhook" THEN "manual" ELSE "scheduled"

\* what the providers answer to the three lookups of one research_stock call
ProviderStates == {
    [news |-> [news |-> <<"h1">>], recs |-> [recs |-> <<"2024-05">>],
     context |-> [hist |-> <<12000, 14996>>]],
    [news |-> [raises |-> "rate limit"], recs |-> [recs |-> <<"2024-05">>],
     context |-> [raises |-> "timeout"]]
}

Researched(s, prov) ==
    research_stock(s, get_company_news(prov.news), get_analyst_recommendations(prov.recs),
                   get_stock_context(prov.context))

StreamDeltas == {"**AAA**\nBUY\n", "Confidence: Low\n"}
ElapsedValues == {0, 425}

\* a limiter that admits every caller
NeverLocked(value) == FALSE

\* Semaphore.locked()
Locked(value) == value = 0

\* a join that lists the results last child first
gather_reversed(sl) == [i \in 1..Len(sl) |-> sl[Len(sl) + 1 - i][1]]

\* the list asyncio.gather resolves to: the result of each child, by position
gather_results(sl) == [i \in 1..Len(sl) |-> sl[i][1]]

\* the future gather hands to its caller: pending, resolved, or already awaited
\* a gather future that is resolved with an empty list as soon as it is created
ResolvedAtOnce == [state |-> "result", result |-> <<>>]

Pending == [state |-> "pending"]
Awaited == [state |-> "awaited"]

InFlight == {i \in DOMAIN task : task[i] = "running"}

\* The invoker's coroutine keeps the event loop: aggregate_research and
\* analyze_and_recommend use the synchronous client and a plain for loop over
\* the stream, so nothing is awaited between the return of gather and the
\* await of bot.send_card in a thread (server.py 144, 147); the scheduler
\* sends its cards synchronously too (scheduler.py 67, 71).
LoopHeld ==
    \/ pc \in {"aggregate", "aggregating", "recommend", "stream"}
    \/ invoker = "scheduler" /\ pc \in {"report", "except"}

InitPipeline ==
    /\ invoker \in {"webhook", "scheduler", "cli"}
    /\ \E n \in 0..MaxHoldings : all_stocks = SubSeq(Listing, 1, n)
    /\ ticker_override \in (IF invoker = "webhook" THEN {<<>>, << <<"ZZZ", "BBB">> >>}
                            ELSE {<<>>})
    /\ loaded = <<>>
    /\ pc = "start"
    /\ stocks = <<>> /\ task = <<>> /\ semaphore = 0 /\ slots = <<>>
    /\ outer = [state |-> "none"]
    /\ research_results = <<>> /\ stream = [state |-> "none"] /\ exc = <<>>
    /\ calls = [aggregate |-> 0, recommend |-> 0]
    /\ sent = <<>>
    /\ handled = 0
    /\ IdleExtract /\ IdleResearch /\ IdleServer

\* an exception that is swallowed: the run ends as if it had succeeded
RaiseSilently(e) ==
    /\ exc' = <<e>>
    /\ pc' = "done"

\* the exception e leaves the try block (webhook, scheduler) or main (cli)
Raise(e) ==
    /\ exc' = <<e>>
    /\ pc' = IF invoker = "cli" THEN "crashed" ELSE "except"

\* server.py 135-137 and 152-158, scheduler.py 37-57, main.py 18-35: the
\* portfolio is loaded, the acknowledgement sent, the tasks handed to gather
Start(delivered) ==
    /\ pc = "start"
    /\ invoker = "cli" => delivered
    /\ LET portfolio == IF invoker = "webhook"
                        THEN _load_portfolio(ticker_override, all_stocks)
                        ELSE all_stocks
           n == Len(portfolio)
       IN  /\ stocks' = portfolio
           /\ sent' = IF invoker = "cli" THEN sent
                      ELSE Append(sent, [kind |-> "ack", delivered |-> delivered,
                                         card |-> build_ack_card(TickersOf(portfolio))])
           /\ IF delivered
              THEN /\ pc' = "fanout"
                   /\ semaphore' = SemaphoreValue
                   /\ task' = [i \in 1..n |-> "waiting"]
                   /\ slots' = [i \in 1..n |-> <<>>]
                   /\ outer' = IF n = 0 THEN [state |-> "result", result |-> <<>>] ELSE Pending
              ELSE /\ pc' = "crashed"
                   /\ UNCHANGED <<semaphore, task, slots, outer>>
    /\ UNCHANGED <<handled, invoker, research_results, stream, exc, calls, xvars, rvars, svars, lvars>>

\* a variant that gives the permit back only when the invocation returned
ReleasedOnReturn(value, r) == IF "raised" \in DOMAIN r THEN value ELSE value + 1

\* server.py 153-155, scheduler.py 53-55: leaving the async with block gives the permit back,
\* whether research_stock returned r.value or raised r.raised
Released(value, r) == value + 1

\* async with semaphore: task i gets a permit
Acquire(i) ==
    /\ ~LoopHeld
    /\ task[i] = "waiting"
    /\ ~Locked(semaphore)
    /\ semaphore' = semaphore - 1
    /\ task' = [task EXCEPT ![i] = "running"]
    /\ UNCHANGED <<handled, invoker, pc, stocks, slots, outer, research_results, stream, exc, calls,
                   sent, xvars, rvars, svars, lvars>>

\* research_stock(stocks[i]) ends, the permit is released, gather is told
\* (its callback ignores children that end after the outer future is resolved,
\* and the results collected so far are dropped when it resolves to an exception)
Finish(i, prov) ==
    /\ ~LoopHeld
    /\ task[i] = "running"
    /\ LET r == Researched(stocks[i], prov)
       IN  /\ semaphore' = Released(semaphore, r)
           /\ IF "raised" \in DOMAIN r
              THEN /\ task' = [task EXCEPT ![i] = "raised"]
                   /\ slots' = IF outer = Pending THEN [j \in DOMAIN slots |-> <<>>] ELSE slots
                   /\ outer' = IF outer = Pending
                               THEN [state |-> "exception",
                                     exception |-> [type |-> "TypeError", message |-> r.raised]]
                               ELSE outer
              ELSE /\ task' = [task EXCEPT ![i] = "done"]
                   /\ slots' = IF outer = Pending THEN [slots EXCEPT ![i] = <<r.value>>] ELSE slots
                   /\ outer' = IF outer = Pending /\ \A j \in DOMAIN task : j # i => task[j] = "done"
                               THEN [state |-> "result", result |-> gather_results(slots')]
                               ELSE outer
    /\ UNCHANGED <<handled, invoker, pc, stocks, research_results, stream, exc, calls, sent,
                   xvars, rvars, svars, lvars>>

\* await asyncio.gather(...) returns the list or raises the first exception;
\* asyncio.run (cli) cancels the tasks still pending when main raises
GatherReturns ==
    /\ pc = "fanout"
    /\ outer.state \in {"result", "exception"}
    /\ outer' = Awaited
    /\ IF outer.state = "result"
       THEN /\ research_results' = <<outer.result>>
            /\ pc' = "aggregate"
            /\ slots' = [i \in DOMAIN slots |-> <<>>]
            /\ UNCHANGED <<exc, task>>
       ELSE /\ Raise(outer.exception)
            /\ task' = IF invoker = "cli"
                       THEN [i \in DOMAIN task |->
                                IF task[i] \in {"waiting", "running"} THEN "cancelled"
                                ELSE task[i]]
                       ELSE task
            /\ UNCHANGED <<research_results, slots>>
    /\ UNCHANGED <<handled, invoker, stocks, semaphore, stream, calls, sent, xvars, rvars, svars, lvars>>

\* aggregator.py 17-44: aggregate_research is entered and the request issued;
\* the coroutine does not return before the response is there
Aggregate ==
    /\ pc = "aggregate"
    /\ pc' = "aggregating"
    /\ calls' = [calls EXCEPT !.aggregate = @ + 1]
    /\ research_results' = <<>>
    /\ UNCHANGED <<handled, invoker, stocks, task, semaphore, slots, outer, stream, exc, sent,
                   xvars, rvars, svars, lvars>>

\* aggregator.py 19-46: the response arrives and the findings are returned,
\* or the client raises
AggregateReturns(ok) ==
    /\ pc = "aggregating"
    /\ IF ok THEN pc' = "recommend" /\ exc' = exc
       ELSE Raise([type |-> "APIConnectionError", message |-> "Connection error."])
    /\ UNCHANGED <<handled, invoker, stocks, task, semaphore, slots, outer, research_results, stream,
                   calls, sent, xvars, rvars, svars, lvars>>

\* analyst.py 39-54: the streamed request is issued
OpenStream(ok) ==
    /\ pc = "recommend"
    /\ calls' = [calls EXCEPT !.recommend = @ + 1]
    /\ IF ok
       THEN /\ pc' = "stream" /\ exc' = exc
            /\ stream' = [state |-> "open", full_text |-> "", printed |-> "",
                          received |-> <<>>]
       ELSE /\ Raise([type |-> "APIConnectionError", message |-> "Connection error."])
            /\ stream' = stream
    /\ UNCHANGED <<handled, invoker, stocks, task, semaphore, slots, outer, research_results, sent,
                   xvars, rvars, svars, lvars>>

\* an accumulator that puts the new text in front
Prepend(full_text, delta) == delta \o full_text

\* full_text += delta
Accumulate(full_text, delta) == full_text \o delta

\* analyst.py 56-60: one chunk; delta = "" stands for a chunk without choices or text
NextChunk(delta) ==
    /\ pc = "stream"
    /\ Len(stream.received) < MaxStream
    /\ stream' = IF delta # ""
                 THEN [stream EXCEPT !.full_text = Accumulate(@, delta),
                                     !.printed = @ \o delta,
                                     !.received = Append(@, delta)]
                 ELSE [stream EXCEPT !.received = Append(@, delta)]
    /\ UNCHANGED <<handled, invoker, pc, stocks, task, semaphore, slots, outer, research_results, exc,
                   calls, sent, xvars, rvars, svars, lvars>>

\* a failing stream whose text so far is handed on as if it were complete
StreamFailsKeepingText ==
    /\ pc = "stream"
    /\ pc' = IF invoker = "cli" THEN "done" ELSE "report"
    /\ stream' = [stream EXCEPT !.state = "failed"]
    /\ UNCHANGED <<handled, invoker, stocks, task, semaphore, slots, outer, research_results,
                   exc, calls, sent, xvars, rvars, svars, lvars>>

\* the stream raises before it is exhausted: full_text is lost with the frame
StreamFails ==
    /\ pc = "stream"
    /\ Raise([type |-> "APIError", message |-> "stream interrupted"])
    /\ stream' = [state |-> "failed", printed |-> stream.printed,
                  received |-> stream.received]
    /\ UNCHANGED <<handled, invoker, stocks, task, semaphore, slots, outer, research_results,
                   calls, sent, xvars, rvars, svars, lvars>>

\* analyst.py 62-63: the stream is exhausted, full_text is returned
StreamEnds ==
    /\ pc = "stream"
    /\ pc' = IF invoker = "cli" THEN "done" ELSE "report"
    /\ stream' = [stream EXCEPT !.state = "exhausted"]
    /\ UNCHANGED <<handled, invoker, stocks, task, semaphore, slots, outer, research_results,
                   exc, calls, sent, xvars, rvars, svars, lvars>>

\* server.py 142-144, scheduler.py 60-66: the card is built and sent
Report(elapsed, now, delivered) ==
    /\ pc = "report"
    /\ sent' = Append(sent, [kind |-> "report", delivered |-> delivered,
                             card |-> build_card(stream.full_text, TickersOf(stocks),
                                                 Trigger, elapsed, now)])
    /\ IF delivered THEN pc' = "done" /\ exc' = exc
       ELSE Raise([type |-> "HTTPStatusError", message |-> "Server error '500'"])
    /\ UNCHANGED <<handled, invoker, stocks, task, semaphore, slots, outer, research_results, stream,
                   calls, xvars, rvars, svars, lvars>>

\* server.py 145-147, scheduler.py 69-71: the except clause
Except(now, delivered) ==
    /\ pc = "except"
    /\ sent # <<>> /\ sent[Len(sent)].kind = "report" =>
          date_str(now) >= sent[Len(sent)].card.header
    /\ sent' = Append(sent, [kind |-> "error", delivered |-> delivered,
                             card |-> build_error_card(StrExc(exc[1]), Trigger, now)])
    /\ pc' = IF delivered THEN "done" ELSE "crashed"
    /\ UNCHANGED <<handled, invoker, stocks, task, semaphore, slots, outer, research_results, stream,
                   exc, calls, xvars, rvars, svars, lvars>>

Next ==
    \/ \E delivered \in BOOLEAN : Start(delivered)
    \/ \E i \in DOMAIN task : Acquire(i)
    \/ \E i \in DOMAIN task, prov \in ProviderStates : Finish(i, prov)
    \/ GatherReturns
    \/ Aggregate
    \/ \E ok \in BOOLEAN : AggregateReturns(ok)
    \/ \E ok \in BOOLEAN : OpenStream(ok)
    \/ \E delta \in StreamDeltas \cup {""} : NextChunk(delta)
    \/ StreamFails
    \/ StreamEnds
    \/ \E elapsed \in ElapsedValues, now \in 0..MaxClock, delivered \in BOOLEAN :
          Report(elapsed, now, delivered)
    \/ \E now \in 0..MaxClock, delivered \in BOOLEAN : Except(now, delivered)

Init == InitPipeline
Spec == Init /\ [][Next]_vars

\* The steps of a run other than the delivery of the report card
LoopSteps ==
    \/ \E delivered \in BOOLEAN : Start(delivered)
    \/ \E i \in DOMAIN task : Acquire(i)
    \/ \E i \in DOMAIN task, prov \in ProviderStates : Finish(i, prov)
    \/ GatherReturns
    \/ Aggregate
    \/ \E ok \in BOOLEAN : AggregateReturns(ok)
    \/ \E ok \in BOOLEAN : OpenStream(ok)
    \/ \E delta \in StreamDeltas \cup {""} : NextChunk(delta)
    \/ StreamFails
    \/ StreamEnds
    \/ \E now \in 0..MaxClock, delivered \in BOOLEAN : Except(now, delivered)

ReportStep ==
    \E elapsed \in ElapsedValues, now \in 0..MaxClock, delivered \in BOOLEAN :
        Report(elapsed, now, delivered)

\* A webhook or scheduler run over the configured portfolio, of one holding
\* or of more holdings than the limiter admits at once, under the assumption
\* that the event loop goes on running what is
\* ready and that every call to a provider, to the model or to the bot API
\* comes back: a step of the run that can be taken is taken in the end.
\* The last conjunct is WF_vars(ReportStep) written out: ReportStep changes
\* sent whenever it is taken, and it can be taken exactly when pc = "report".
InitLive ==
    /\ InitPipeline
    /\ invoker # "cli"
    /\ ticker_override = <<>>
    /\ Len(all_stocks) \in {1, MaxHoldings}

SpecLive ==
    /\ InitLive /\ [][Next]_vars
    /\ WF_vars(LoopSteps)
    /\ ([]<>(pc # "report") \/ []<><<ReportStep>>_vars)

\* ------------------------------------------------------------------------
\* A webhook run with the rest of the server on the same event loop
\* ------------------------------------------------------------------------

MaxEvents == 1
LoopHoldings == 2

\* server.py 63-90: feishu_webhook serves another request, one callback of
\* the event loop, which runs only when no other callback keeps the loop
HandleEvent ==
    /\ invoker = "webhook"
    /\ ~LoopHeld
    /\ handled < MaxEvents
    /\ handled' = handled + 1
    /\ UNCHANGED <<invoker, pc, stocks, task, semaphore, slots, outer, research_results,
                   stream, exc, calls, sent, xvars, rvars, svars, lvars>>

InitLoop ==
    /\ InitPipeline
    /\ invoker = "webhook"
    /\ Len(all_stocks) <= LoopHoldings

NextLoop ==
    \/ Next
    \/ HandleEvent

SpecLoop == InitLoop /\ [][NextLoop]_vars

\* ------------------------------------------------------------------------
\* feishu/server.py: _handle_message, from the event to the branch it takes
\* and to its end
\* ------------------------------------------------------------------------

\* the first position >= p of t that holds a white space, Len(t)+1 if none
NonSpaceEnd(t, p) ==
    LET sp == {q \in p..Len(t) : IsSpace(Ch(t, q))}
    IN  IF sp = {} THEN Len(t) + 1 ELSE CHOOSE q \in sp : \A r \in sp : q <= r

\* re.sub(r"@\S+\s*", "", s), from position p on
RECURSIVE SubMentions(_, _)
SubMentions(s, p) ==
    IF p > Len(s) THEN ""
    ELSE IF Ch(s, p) = "@" /\ p < Len(s) /\ ~IsSpace(Ch(s, p + 1))
         THEN SubMentions(s, RunEnd(s, NonSpaceEnd(s, p + 1), SpaceChars))
         ELSE Ch(s, p) \o SubMentions(s, p + 1)

\* str.split(), from position p on
RECURSIVE SplitWords(_, _)
SplitWords(s, p) ==
    LET a == RunEnd(s, p, SpaceChars)
    IN  IF a > Len(s) THEN <<>>
        ELSE <<SubSeq(s, a, NonSpaceEnd(s, a) - 1)>> \o SplitWords(s, NonSpaceEnd(s, a))

\* str.isalpha() on ASCII text
IsAlpha(w) ==
    /\ w # ""
    /\ \A i \in 1..Len(w) : Ch(w, i) \in CharsOf(UpperAlpha) \cup CharsOf(LowerAlpha)

\* [p.upper() for p in parts[1:] if p.isalpha()]
RECURSIVE ExtraTickers(_, _)
ExtraTickers(parts, i) ==
    IF i > Len(parts) THEN <<>>
    ELSE (IF IsAlpha(parts[i]) THEN <<Upper(parts[i])>> ELSE <<>>)
         \o ExtraTickers(parts, i + 1)

\* server.py 114: the text without mentions, stripped, in lower case
CleanText(raw_text) == Lower(Strip(SubMentions(raw_text, 1)))

\* str.startswith
StartsWith(clean, prefix) == EqualAt(clean, 1, prefix)

\* what json.loads(msg.get("content", "{}")) and content.get("text", "") give:
\* the text, or a parse error (JSONDecodeError), or a value that has no get
\* or no strip (AttributeError)
TextOf(content) ==
    IF content.json = "object" /\ content.text.t = "str"
    THEN [ok |-> TRUE, raw_text |-> Strip(content.text.v)]
    ELSE [ok |-> FALSE, raw_text |-> ""]

\* server.py 95-129 up to the first await: the branch taken
Branch(msg) ==
    IF msg.message_type # "text" THEN [kind |-> "ignored"]
    ELSE LET parsed == TextOf(msg.content)
             clean == CleanText(parsed.raw_text)
         IN  IF ~parsed.ok THEN [kind |-> "ignored"]
             ELSE IF StartsWith(clean, "run")
                  THEN [kind |-> "run",
                        ticker_override |-> ExtraTickers(SplitWords(clean, 1), 2)]
             ELSE IF clean \in {"help", "?"} THEN [kind |-> "help"]
             ELSE [kind |-> "unknown"]

\* the messages: an optional mention, a word, some arguments
Mentions == {"", "@_user_1 "}
CommandWords == {"run", "RUN", "running", "help", "Help", "?", "hello", ""}
Arguments == {"", " aapl", " aapl MSFT", " BRK.B", " msft 600519 aapl"}

Contents ==
    {[json |-> "object", text |-> Str(m \o w \o a)] :
        m \in Mentions, w \in CommandWords, a \in Arguments}
    \cup {[json |-> "object", text |-> Null], [json |-> "object", text |-> Num(5)],
          [json |-> "array", text |-> Null], [json |-> "invalid", text |-> Null]}

Messages ==
    {[message_type |-> "text", content |-> c] : c \in Contents}
    \cup {[message_type |-> "image", content |-> [json |-> "object", text |-> Null]]}

InitCommand ==
    /\ message \in Messages
    /\ reaction = <<>>
    /\ IdleExtract /\ IdleResearch /\ IdleLoad /\ IdlePipeline /\ IdleToken /\ IdleRuns

\* server.py 95-126: the handler runs to its first call that sends or awaits
HandleMessage ==
    /\ reaction = <<>>
    /\ reaction' = <<[branch |-> Branch(message), replies |-> <<>>,
                      state |-> IF Branch(message).kind = "ignored" THEN "ended"
                                ELSE "calling"]>>
    /\ UNCHANGED <<message, tvars, uvars, xvars, rvars, lvars, pvars>>

\* server.py 120: await _run_analysis(...) comes back, or raises when the
\* acknowledgement cannot be sent (server.py 137 is outside the try block)
RunAnalysis(acknowledged) ==
    /\ reaction # <<>> /\ reaction[1].state = "calling"
    /\ reaction[1].branch.kind = "run"
    /\ reaction' = <<[reaction[1] EXCEPT
                         !.state = IF acknowledged THEN "ended" ELSE "raised"]>>
    /\ UNCHANGED <<message, tvars, uvars, xvars, rvars, lvars, pvars>>

\* server.py 123 and 180-190: await asyncio.to_thread(bot.reply_text, ...)
SendHelp(delivered) ==
    /\ reaction # <<>> /\ reaction[1].state = "calling"
    /\ reaction[1].branch.kind = "help"
    /\ reaction' = <<[reaction[1] EXCEPT
                         !.replies = IF delivered THEN <<"help">> ELSE <<>>,
                         !.state = IF delivered THEN "ended" ELSE "raised"]>>
    /\ UNCHANGED <<message, tvars, uvars, xvars, rvars, lvars, pvars>>

\* server.py 126-129: bot.reply_text(...) is called, it is a plain function
\* (bot.py 86-99) that returns a dict or raises; then the dict is awaited,
\* which raises TypeError
ReplyUnknown(delivered) ==
    /\ reaction # <<>> /\ reaction[1].state = "calling"
    /\ reaction[1].branch.kind = "unknown"
    /\ reaction' = <<[reaction[1] EXCEPT
                         !.replies = IF delivered THEN <<"Unknown command">> ELSE <<>>,
                         !.state = "raised"]>>
    /\ UNCHANGED <<message, tvars, uvars, xvars, rvars, lvars, pvars>>

NextCommand ==
    \/ HandleMessage
    \/ \E acknowledged \in BOOLEAN : RunAnalysis(acknowledged)
    \/ \E delivered \in BOOLEAN : SendHelp(delivered)
    \/ \E delivered \in BOOLEAN : ReplyUnknown(delivered)

SpecCommand == InitCommand /\ [][NextCommand]_vars

\* ------------------------------------------------------------------------
\* feishu/bot.py: _get_tenant_access_token, called again and again while
\* time goes on
\* ------------------------------------------------------------------------

ExpiryMargin == 60
DefaultExpire == 7200
TickSeconds == 30
MaxTicks == 6

\* what the token endpoint answers: a token with a lifetime (Null when the
\* answer has no "expire"), a non-zero code, or an HTTP error status
TokenResponses ==
    {[status |-> 200, code |-> 0, tenant_access_token |-> tk, expire |-> e] :
        tk \in {"t-1", "t-2"}, e \in {Num(60), Num(120), Null}}
    \cup {[status |-> 200, code |-> 99991663], [status |-> 500]}

\* a test that takes the cached token up to its expiry
FreshUntilExpiry(cache, now) == cache.token # "" /\ now < cache.expires_at

\* bot.py 24: _token_cache["token"] and now < _token_cache["expires_at"] - 60
Fresh(cache, now) == cache.token # "" /\ now < cache.expires_at - ExpiryMargin

InitToken ==
    /\ token_cache = [token |-> "", expires_at |-> 0]
    /\ clock = 0
    /\ token_call = [state |-> "idle"]
    /\ IdleExtract /\ IdleResearch /\ IdleLoad /\ IdlePipeline /\ IdleCommand /\ IdleRuns

\* time.time() goes on
Tick ==
    /\ clock < MaxTicks * TickSeconds
    /\ clock' = clock + TickSeconds
    /\ UNCHANGED <<token_cache, token_call, mvars, uvars, xvars, rvars, lvars, pvars>>

\* bot.py 23-34: the call reads the time, returns the cached token or posts
\* the request
GetToken ==
    /\ token_call.state # "requesting"
    /\ token_call' = IF Fresh(token_cache, clock)
                     THEN [state |-> "returned", now |-> clock, requested |-> FALSE,
                           value |-> token_cache.token]
                     ELSE [state |-> "requesting", now |-> clock]
    /\ UNCHANGED <<token_cache, clock, mvars, uvars, xvars, rvars, lvars, pvars>>

\* bot.py 35-42: the answer is there
TokenResponse(resp) ==
    /\ token_call.state = "requesting"
    /\ IF resp.status # 200
       THEN /\ token_call' = [state |-> "raised", now |-> token_call.now,
                              requested |-> TRUE, value |-> "HTTPStatusError"]
            /\ UNCHANGED token_cache
       ELSE IF resp.code # 0
       THEN /\ token_call' = [state |-> "raised", now |-> token_call.now,
                              requested |-> TRUE, value |-> "RuntimeError"]
            /\ UNCHANGED token_cache
       ELSE /\ token_cache' =
                  [token |-> resp.tenant_access_token,
                   expires_at |-> token_call.now
                                  + (IF resp.expire = Null THEN DefaultExpire
                                     ELSE resp.expire.v)]
            /\ token_call' = [state |-> "returned", now |-> token_call.now,
                              requested |-> TRUE, value |-> resp.tenant_access_token]
    /\ UNCHANGED <<clock, mvars, uvars, xvars, rvars, lvars, pvars>>

NextToken ==
    \/ Tick
    \/ GetToken
    \/ \E resp \in TokenResponses : TokenResponse(resp)

SpecToken == InitToken /\ [][NextToken]_vars

\* ------------------------------------------------------------------------
\* feishu/server.py: several run commands in one server process. Each
\* command becomes a task of the one event loop (server.py 87) and calls
\* _run_pipeline, which makes its own limiter (server.py 152). A run is
\* described by where its coroutine is, the value of its limiter, and how
\* many of its research invocations wait, are in flight, or have ended.
\* ------------------------------------------------------------------------

MaxRuns == 2
OverlapHoldings == 6

InitOverlap ==
    /\ runs = <<>>
    /\ IdleExtract /\ IdleResearch /\ IdleLoad /\ IdlePipeline
    /\ IdleCommand /\ IdleToken

\* a run that is between the return of gather and the delivery of its card
\* keeps the event loop (see LoopHeld)
OverlapHeld == \E r \in DOMAIN runs : runs[r].pc = "models"

AllInFlight(rs) == IF rs = <<>> THEN 0 ELSE
    LET sum[k \in 0..Len(rs)] == IF k = 0 THEN 0 ELSE sum[k - 1] + rs[k].running
    IN  sum[Len(rs)]

\* one limiter for the whole process: the permits left are those that no
\* invocation of any run holds
SharedSemaphore(rs, r) == SemaphoreValue - AllInFlight(rs)

\* server.py 152: the limiter that the invocations of run r go through is
\* the one made in this run's call of _run_pipeline
SemaphoreOf(rs, r) == rs[r].semaphore

\* server.py 87, 132-137, 152-158: a run command arrives, the holdings are
\* handed to gather behind a new limiter
StartRun ==
    /\ ~OverlapHeld
    /\ Len(runs) < MaxRuns
    /\ runs' = Append(runs, [pc |-> "fanout", semaphore |-> SemaphoreValue,
                             waiting |-> OverlapHoldings, running |-> 0, ended |-> 0,
                             outer |-> "pending"])
    /\ UNCHANGED <<mvars, tvars, xvars, rvars, lvars, pvars>>

\* server.py 155: an invocation of run r gets a permit
AcquireIn(r) ==
    /\ ~OverlapHeld
    /\ runs[r].waiting > 0
    /\ ~Locked(SemaphoreOf(runs, r))
    /\ runs' = [runs EXCEPT ![r].semaphore = @ - 1, ![r].waiting = @ - 1,
                            ![r].running = @ + 1]
    /\ UNCHANGED <<mvars, tvars, xvars, rvars, lvars, pvars>>

\* server.py 155-156: an invocation of run r ends, its permit is given back,
\* and gather resolves when it raised or when it was the last one
FinishIn(r, returned) ==
    /\ ~OverlapHeld
    /\ runs[r].running > 0
    /\ LET res == IF returned THEN [value |-> <<>>] ELSE [raised |-> "TypeError"]
           last == runs[r].waiting = 0 /\ runs[r].running = 1
       IN  runs' = [runs EXCEPT ![r].semaphore = Released(@, res),
                               ![r].running = @ - 1,
                               ![r].ended = @ + 1,
                               ![r].outer = IF @ # "pending" THEN @
                                            ELSE IF ~returned THEN "exception"
                                            ELSE IF last THEN "result" ELSE @]
    /\ UNCHANGED <<mvars, tvars, xvars, rvars, lvars, pvars>>

\* server.py 158-160, 145-147: gather returns and the model calls begin, or
\* it raises and the error card is sent
GatherReturnsIn(r) ==
    /\ ~OverlapHeld
    /\ runs[r].pc = "fanout"
    /\ runs[r].outer \in {"result", "exception"}
    /\ runs' = [runs EXCEPT ![r].pc = IF runs[r].outer = "result" THEN "models" ELSE "done",
                            ![r].outer = "awaited"]
    /\ UNCHANGED <<mvars, tvars, xvars, rvars, lvars, pvars>>

\* server.py 159-160, 142-147: the two model calls are over, a card is sent
ModelsReturn(r) ==
    /\ runs[r].pc = "models"
    /\ runs' = [runs EXCEPT ![r].pc = "done"]
    /\ UNCHANGED <<mvars, tvars, xvars, rvars, lvars, pvars>>

NextOverlap ==
    \/ StartRun
    \/ \E r \in DOMAIN runs : AcquireIn(r)
    \/ \E r \in DOMAIN runs, returned \in BOOLEAN : FinishIn(r, returned)
    \/ \E r \in DOMAIN runs : GatherReturnsIn(r)
    \/ \E r \in DOMAIN runs : ModelsReturn(r)

SpecOverlap == InitOverlap /\ [][NextOverlap]_vars

\* ------------------------------------------------------------------------
\* Properties of one pipeline run (Spec)
\* ------------------------------------------------------------------------

Kinds(k) == {i \in 1..Len(sent) : sent[i].kind = k}
Over == pc \in {"done", "crashed"}
SomeRaised == \E i \in DOMAIN task : task[i] = "raised"
HasLookupError(rec) ==
    \/ "error" \in DOMAIN rec.price_context
    \/ rec.recent_news # <<>> /\ "error" \in DOMAIN rec.recent_news[1]
    \/ "error" \in DOMAIN rec.analyst_recommendations

\* C1: when no research invocation raises, gather hands back exactly one
\* record per holding, and the record at position i is the one research_stock
\* produces for the holding at position i, in whatever order the invocations
\* ended; a failed lookup shows as an error field inside that record.
C1_FanOutInOrder ==
    pc = "aggregate" =>
        /\ Len(research_results[1]) = Len(stocks)
        /\ \A i \in 1..Len(stocks) :
              /\ research_results[1][i].ticker = stocks[i].ticker
              /\ \E prov \in ProviderStates :
                    Researched(stocks[i], prov) = [value |-> research_results[1][i]]

\* three or more records, the first with failed lookups and the second without
C1_Witness ==
    /\ pc = "aggregate"
    /\ Len(research_results[1]) >= 3
    /\ HasLookupError(research_results[1][1])
    /\ ~HasLookupError(research_results[1][3])

\* C2: at every moment of a run at most 5 research_stock invocations hold a
\* permit of the semaphore and have not finished.
C2_AtMostFiveInFlight == Cardinality(InFlight) <= 5

\* five invocations in flight while a sixth waits for a permit
C2_Witness ==
    /\ Cardinality(InFlight) = 5
    /\ \E i \in DOMAIN task : task[i] = "waiting"

FromModelCall == exc # <<>> /\ exc[1].type \in {"APIConnectionError", "APIError"}

\* C3: when the aggregator call or the recommender call (its stream included)
\* raises under the webhook or the scheduler, no report card is sent, at most
\* one error card is sent, and once the run is over exactly one was sent,
\* carrying str(exc) and the trigger of the run.
C3_ModelFailureNotifiedOnce ==
    (invoker \in {"webhook", "scheduler"} /\ FromModelCall) =>
        /\ Kinds("report") = {}
        /\ Cardinality(Kinds("error")) <= 1
        /\ Over =>
              /\ Cardinality(Kinds("error")) = 1
              /\ \A i \in Kinds("error") :
                    /\ sent[i].card.error = exc[1].message
                    /\ sent[i].card.trigger =
                          (IF invoker = "webhook" THEN "manual" ELSE "scheduled")

\* a scheduled run whose recommender stream broke, over with its error card sent
C3_Witness ==
    /\ invoker = "scheduler" /\ pc = "done"
    /\ exc # <<>> /\ exc[1].type = "APIError"
    /\ calls = [aggregate |-> 1, recommend |-> 1]
    /\ Cardinality(Kinds("error")) = 1

\* C4: once a research_stock invocation has raised, neither the aggregator nor
\* the recommender is ever called and no report card is sent; the run ends
\* with exactly one error card carrying the exception (webhook, scheduler) or
\* with the exception leaving main (cli). When every invocation returned a
\* record, with or without lookup errors inside, gather resolves to the list
\* and no exception comes out of the fan-out.
C4_RaisedInvocationAborts ==
    /\ SomeRaised =>
          /\ calls = [aggregate |-> 0, recommend |-> 0]
          /\ Kinds("report") = {}
          /\ Over =>
                /\ exc # <<>> /\ exc[1].type = "TypeError"
                /\ IF invoker = "cli" THEN pc = "crashed" /\ sent = <<>>
                   ELSE /\ Cardinality(Kinds("error")) = 1
                        /\ \A i \in Kinds("error") : sent[i].card.error = exc[1].message
    /\ (task # <<>> /\ \A i \in DOMAIN task : task[i] = "done") =>
          /\ outer.state \in {"result", "awaited"}
          /\ exc # <<>> => exc[1].type # "TypeError"

\* the run was aborted by the second invocation while others were still running
C4_Witness ==
    /\ invoker = "webhook" /\ pc = "done"
    /\ 2 \in DOMAIN task /\ task[2] = "raised"
    /\ \E i \in DOMAIN task : task[i] = "running"
    /\ Cardinality(Kinds("error")) = 1

\* a report was delivered for a portfolio holding BBB, whose avg_cost is a
\* string: research_stock returns a record for it only when its price lookup failed
C4_DegradedWitness ==
    /\ pc = "done"
    /\ \E i \in DOMAIN stocks : stocks[i].ticker = "BBB"
    /\ \E i \in Kinds("report") : sent[i].delivered

RECURSIVE JoinTexts(_)
JoinTexts(seq) == IF seq = <<>> THEN "" ELSE Head(seq) \o JoinTexts(Tail(seq))

IsPrefix(a, b) == Len(a) <= Len(b) /\ SubSeq(b, 1, Len(a)) = a

Consuming == stream.state \in {"open", "exhausted"}

\* C12: while the recommender consumes its stream and once the stream is
\* exhausted, full_text is the concatenation, in arrival order, of the texts
\* of the chunks received (a chunk without text adds nothing) and equals what
\* was printed; every chunk extends full_text at its end or leaves it as it
\* is, and exhausting the stream leaves it as it is.
C12_StreamAccumulates ==
    /\ [](Consuming => /\ stream.full_text = JoinTexts(stream.received)
                       /\ stream.printed = stream.full_text)
    /\ [][(stream.state = "open" /\ stream'.state \in {"open", "exhausted"}) =>
            /\ IsPrefix(stream.full_text, stream'.full_text)
            /\ stream'.state = "exhausted" => stream'.full_text = stream.full_text
            /\ stream'.received # stream.received =>
                  stream'.full_text =
                      stream.full_text \o stream'.received[Len(stream'.received)]]_vars

\* two different texts arrived one after the other and the stream is exhausted
C12_Witness ==
    /\ stream.state = "exhausted"
    /\ Len(stream.received) >= 2
    /\ stream.received[1] # "" /\ stream.received[2] # ""
    /\ stream.received[1] # stream.received[2]
    /\ stream.full_text = stream.received[1] \o stream.received[2]

Reports == Kinds("report")
AllRecordsComplete == \A i \in DOMAIN task : task[i] = "done"

\* C14 as stated: in every webhook or scheduler run that has come to its end
\* after the research was started, the aggregator and the recommender were
\* each invoked exactly once.
C14_ExactlyOnceInEveryRun ==
    (Over /\ invoker # "cli" /\ task # <<>>) =>
        calls.aggregate = 1 /\ calls.recommend = 1

\* what holds of the stages in every state of a run
StagesInOrder ==
    /\ (task # <<>> /\ invoker # "cli") =>
          (sent # <<>> /\ sent[1].kind = "ack" /\ sent[1].delivered)
    /\ calls.aggregate <= 1 /\ calls.recommend <= 1
    /\ calls.aggregate = 1 => AllRecordsComplete
    /\ calls.recommend = 1 =>
          (calls.aggregate = 1 /\ pc \notin {"start", "fanout", "aggregate", "aggregating"})
    /\ \A k \in Reports :
          /\ stream.state = "exhausted"
          /\ calls.aggregate = 1 /\ calls.recommend = 1
          /\ sent[k].delivered => (k = Len(sent) /\ pc = "done")
    /\ invoker = "cli" => sent = <<>>

\* what holds of every step that enters a stage
StageSteps ==
    /\ (task' # task /\ task = <<>>) =>
          (invoker = "cli" \/ (Len(sent') = 1 /\ sent'[1].kind = "ack"))
    /\ calls'.aggregate # calls.aggregate =>
          (pc = "aggregate" /\ AllRecordsComplete /\ research_results # <<>>
           /\ Len(research_results[1]) = Len(stocks))
    /\ calls'.recommend # calls.recommend => (pc = "recommend" /\ calls.aggregate = 1)
    /\ pc = "aggregating" => (pc' \in {"aggregating", "recommend", "except", "crashed"})
    /\ (Len(sent') > Len(sent) /\ sent'[Len(sent')].kind = "report") =>
          (pc = "report" /\ stream.state = "exhausted")

\* C14, amended: the acknowledgement is sent before any research starts; the
\* aggregator is invoked at most once and only when all N research records
\* are complete; the recommender is invoked at most once and only after the
\* aggregator has returned; a report is built only from an exhausted stream,
\* only in a run in which both were invoked exactly once, and a delivered
\* report is the last card of its run. A run that is aborted by a failure
\* skips the remaining stages, and a command-line run sends no card.
C14_StagesInOrder == []StagesInOrder /\ [][StageSteps]_vars

\* a run over three holdings that invoked each stage once and delivered its report
C14_Witness ==
    /\ pc = "done" /\ Len(stocks) = 3 /\ AllRecordsComplete
    /\ calls = [aggregate |-> 1, recommend |-> 1]
    /\ Len(sent) = 2 /\ sent[1].kind = "ack"
    /\ sent[2].kind = "report" /\ sent[2].delivered

\* C15: the fan-out is a barrier in both outcomes. Once gather has handed the
\* list or the failure to its caller, and so whenever a report or a failure
\* notification has been sent, no research invocation of the run is running.
C15_FanOutIsBarrier ==
    (\/ pc \in {"aggregate", "except"}
     \/ \E k \in 1..Len(sent) : sent[k].kind \in {"report", "error"})
        => InFlight = {}

\* C17: when the recommendation stream fails after some chunks, the text
\* accumulated so far is gone with analyze_and_recommend: the invoker never
\* comes to build a report, so every report that is sent was extracted from
\* the whole text of an exhausted stream, and a run whose stream failed sends
\* no report at all.
C17_NoPartialReport ==
    /\ pc = "report" => stream.state = "exhausted"
    /\ stream.state = "failed" =>
          (Reports = {} /\ "full_text" \notin DOMAIN stream /\ exc # <<>>)
    /\ \A k \in Reports :
          /\ stream.state = "exhausted"
          /\ stream.full_text = JoinTexts(stream.received)
          /\ SubSeq(sent[k].card.elements, 1, Len(sent[k].card.elements) - 1)
                = card_elements(stream.full_text, TickersOf(stocks))

\* the stream of a webhook run failed after text had arrived; the run is over
\* with a failure notification and without a report
C17_Witness ==
    /\ invoker = "webhook" /\ pc = "done"
    /\ stream.state = "failed" /\ stream.printed # ""
    /\ Reports = {}
    /\ Kinds("error") # {}

AllDelivered == \A k \in 1..Len(sent) : sent[k].delivered
NoneWaiting == \A i \in DOMAIN task : task[i] # "waiting"

\* C25: provided the external calls come back and the delivery calls
\* succeed, every started webhook or scheduler run terminates: every holding
\* is admitted by the limiter in the end (a permit is given back when an
\* invocation ends, also when it raises), and the run ends having sent
\* exactly one final card, the report or the failure notification, after the
\* acknowledgement.
C25_RunTerminates ==
    <>[](invoker # "cli" /\ AllDelivered =>
                /\ pc = "done"
                /\ NoneWaiting /\ InFlight = {}
                /\ semaphore = SemaphoreValue
                /\ Len(sent) = 2
                /\ sent[1].kind = "ack"
                /\ sent[2].kind \in {"report", "error"})

\* seven holdings, more than the limiter admits at once, one of which raised:
\* the run is over with the failure notification and all were admitted
C25_Witness ==
    /\ invoker = "webhook" /\ pc = "done" /\ AllDelivered
    /\ Len(stocks) > SemaphoreValue
    /\ SomeRaised /\ NoneWaiting /\ InFlight = {}
    /\ Len(sent) = 2 /\ sent[2].kind = "error"

\* ------------------------------------------------------------------------
\* Properties of a run among other work of the event loop (SpecLoop)
\* ------------------------------------------------------------------------

\* C16: while the run waits for the aggregator's response or consumes the
\* recommendation stream, another task of the same event loop (here the
\* handling of a further webhook request) can take a step.
C16_OthersRunDuringModelCalls ==
    (pc \in {"aggregating", "stream"} /\ handled < MaxEvents) => ENABLED HandleEvent

\* ------------------------------------------------------------------------
\* Properties of the report extraction (SpecExtract)
\* ------------------------------------------------------------------------

\* The entry of a card that starts at element i: the column_set of a ticker
\* and, when build_card appended it, the div with its reasoning and key risk
EntryAt(card, i) ==
    LET e == card.elements[i]
        detail == IF /\ i < Len(card.elements)
                     /\ card.elements[i + 1].tag = "div"
                     /\ Len(card.elements[i + 1].content) = 2
                  THEN card.elements[i + 1].content
                  ELSE <<"", "">>
    IN  [symbol |-> e.content[1], verdict |-> e.content[3], confidence |-> e.content[5],
         reasoning |-> detail[1], key_risk |-> detail[2]]

Entries(card) ==
    {EntryAt(card, i) : i \in {j \in 1..Len(card.elements) :
                                  card.elements[j].tag = "column_set"}}

OverallOf(card) ==
    LET at == {j \in 1..Len(card.elements) :
                  card.elements[j].tag = "div" /\ Len(card.elements[j].content) = 1}
    IN  IF at = {} THEN "" ELSE card.elements[CHOOSE j \in at : TRUE].content[1]

SymbolSet == {symbols.tickers[i] : i \in 1..Len(symbols.tickers)}
Unmarked == {tk \in SymbolSet : MarkerSearch(narrative.text, tk) < 0}

\* the entry extracted from the whole text for a symbol
WholeTextEntry(tk) ==
    [symbol |-> tk,
     verdict |-> _extract_recommendation(narrative.text),
     confidence |-> _extract_confidence(narrative.text),
     reasoning |-> _extract_section(narrative.text, "Reasoning"),
     key_risk |-> _extract_section(narrative.text, "Key Risk")]

\* C5: every card build_card returns has an entry for exactly the symbols it
\* was given, also for those that have no marker in the narrative.
C5_EntryPerSymbol ==
    \A k \in 1..Len(builds) :
        {e.symbol : e \in Entries(builds[k].card)} = SymbolSet

\* a card built from a narrative with text for AAA and BBB and none for ZZZ
C5_Witness ==
    /\ builds # <<>>
    /\ "ZZZ" \in Unmarked
    /\ SymbolSet \ Unmarked # {}
    /\ \E e \in Entries(builds[1].card) : e.symbol = "ZZZ"

C6_Narrative ==
    "**AAA**\nBUY\nConfidence: High\n**Reasoning:** strong earnings\n**Key Risk:** rate hikes\n"
    \o "**BBB**\nSELL\nConfidence: Low\n"
    \o "OVERALL PORTFOLIO ASSESSMENT\nConcentrated in tech."

\* C6: for symbols [AAA, BBB] and the narrative above the card has the entries
\* AAA = (BUY, High, "strong earnings", "rate hikes"), BBB = (SELL, Low, "", "")
\* and the overall assessment "Concentrated in tech.".
C6_ExampleExtraction ==
    \A k \in 1..Len(builds) :
        (narrative.text = C6_Narrative /\ symbols.tickers = <<"AAA", "BBB">>) =>
            /\ Entries(builds[k].card) =
                  {[symbol |-> "AAA", verdict |-> "BUY", confidence |-> "High",
                    reasoning |-> "strong earnings", key_risk |-> "rate hikes"],
                   [symbol |-> "BBB", verdict |-> "SELL", confidence |-> "Low",
                    reasoning |-> "", key_risk |-> ""]}
            /\ OverallOf(builds[k].card) = "Concentrated in tech."

\* C7 as stated: a symbol without any marker in the narrative gets the entry
\* (N/A, N/A, "", ""), whatever the narrative holds for the other symbols.
C7_UnmarkedIsEmpty ==
    \A k \in 1..Len(builds) : \A tk \in Unmarked :
        [symbol |-> tk, verdict |-> "N/A", confidence |-> "N/A",
         reasoning |-> "", key_risk |-> ""] \in Entries(builds[k].card)

\* C7, amended: a symbol without any marker in the narrative gets the entry
\* extracted from the whole narrative, which is (N/A, N/A, "", "") only when
\* the whole narrative has no verdict word, no labelled confidence, no
\* Reasoning label and no Key Risk label.
C7_UnmarkedReadsWholeText ==
    \A k \in 1..Len(builds) : \A tk \in Unmarked :
        \A e \in Entries(builds[k].card) : e.symbol = tk => e = WholeTextEntry(tk)

\* ZZZ has no marker and its entry carries the verdict written for another symbol
C7_Witness ==
    /\ builds # <<>>
    /\ "ZZZ" \in Unmarked
    /\ \E e \in Entries(builds[1].card) : e.symbol = "ZZZ" /\ e.verdict \in {"BUY", "SELL"}

MinuteOf(t) == t \div TicksPerMinute
WithoutNote(card) == SubSeq(card.elements, 1, Len(card.elements) - 1)

HasVerdictWord(t) ==
    \E p \in 1..Len(t) : \E k \in 1..Len(Verdicts) : WordAt(Lower(t), p, Verdicts[k])

\* some labelled confidence level stands in t, in any case
HasConfidence(t) ==
    \E p \in 1..Len(t) : \E k \in 1..Len(Levels) : ConfidenceAt(Lower(t), p, Levels[k])

\* the entry whose fields are each extracted alone from the symbol's section
FieldwiseEntry(stock_blocks, tk) ==
    LET sec == DictGet(stock_blocks, tk)
    IN  [symbol |-> tk,
         verdict |-> IF HasVerdictWord(sec) THEN _extract_recommendation(sec) ELSE "N/A",
         confidence |-> IF HasConfidence(sec) THEN _extract_confidence(sec) ELSE "N/A",
         reasoning |-> IF Occurs(Lower(sec), "reasoning")
                       THEN _extract_section(sec, "Reasoning") ELSE "",
         key_risk |-> IF Occurs(Lower(sec), "key risk")
                      THEN _extract_section(sec, "Key Risk") ELSE ""]

\* C13: build_card returns a report for every narrative and every symbol list
\* (empty narrative, empty list, repeated symbols, symbols with regular
\* expression metacharacters): dated, closed by the footer note, with a verdict
\* among BUY, HOLD, SELL, N/A and a confidence among High, Medium, Low, N/A in
\* every entry. A field that is not found in the symbol's section has its
\* absence value (N/A for verdict and confidence, the empty text for reasoning
\* and key risk) and every other field is what is extracted for it alone.
C13_ReportForEveryInput ==
    LET stock_blocks == _split_stock_sections(narrative.text, symbols.tickers)
        expected == {FieldwiseEntry(stock_blocks, tk) : tk \in SymbolSet}
    IN  \A k \in 1..Len(builds) :
            LET card == builds[k].card
            IN  /\ card.header = date_str(builds[k].now)
                /\ card.elements[Len(card.elements)].tag = "note"
                /\ Entries(card) = expected
                /\ \A e \in Entries(card) :
                       /\ e.verdict \in {"BUY", "HOLD", "SELL", "N/A"}
                       /\ e.confidence \in {"High", "Medium", "Low", "N/A"}
                       /\ Len(e.reasoning) <= ReasoningLimit
                       /\ Len(e.key_risk) <= ReasoningLimit

\* a card built for the symbols A.A and BBB from a narrative that writes AAA
\* and BBB: A.A matches no marker, and the entry of BBB has its verdict and
\* confidence although its section has neither reasoning nor key risk
C13_Witness ==
    /\ builds # <<>>
    /\ symbols.tickers = <<"A.A", "BBB">>
    /\ Occurs(narrative.text, "**AAA**")
    /\ MarkerSearch(narrative.text, "A.A") < 0
    /\ [symbol |-> "BBB", verdict |-> "SELL", confidence |-> "Low",
        reasoning |-> "", key_risk |-> ""] \in Entries(builds[1].card)

\* ------------------------------------------------------------------------
\* Properties of the report extraction on long narratives (SpecLong)
\* ------------------------------------------------------------------------

\* C21: every report is well-typed: each verdict is one of BUY, HOLD, SELL,
\* N/A in upper case whatever the case in the narrative, each confidence one
\* of High, Medium, Low, N/A, each reasoning and each key risk has at most 400
\* characters and the overall assessment at most 800.
C21_WellTyped ==
    \A k \in 1..Len(builds) :
        /\ Len(OverallOf(builds[k].card)) <= 800
        /\ \A e \in Entries(builds[k].card) :
              /\ e.verdict \in {"BUY", "HOLD", "SELL", "N/A"}
              /\ e.confidence \in {"High", "Medium", "Low", "N/A"}
              /\ Len(e.reasoning) <= 400
              /\ Len(e.key_risk) <= 400

\* a report from a narrative that writes "buy" and "confidence: high" in lower
\* case and gives more than 400 characters of reasoning and of key risk: the
\* verdict is BUY, the confidence High, and both texts are cut to 400
C21_Witness ==
    /\ builds # <<>>
    /\ Occurs(narrative.text, "\nbuy\nconfidence: high\n")
    /\ Len(narrative.text) > 900
    /\ \E e \in Entries(builds[1].card) :
          /\ e.symbol = "AAA" /\ e.verdict = "BUY" /\ e.confidence = "High"
          /\ Len(e.reasoning) = 400 /\ Len(e.key_risk) = 400

\* a report whose overall assessment was cut to 800 characters
C21_OverallCut ==
    /\ builds # <<>>
    /\ Len(OverallOf(builds[1].card)) = 800
    /\ Entries(builds[1].card) =
          {[symbol |-> "AAA", verdict |-> "SELL", confidence |-> "Low",
            reasoning |-> "", key_risk |-> ""]}

\* ------------------------------------------------------------------------
\* Properties of the message handler (SpecCommand)
\* ------------------------------------------------------------------------

IsTextMessage ==
    /\ message.message_type = "text"
    /\ message.content.json = "object"
    /\ message.content.text.t = "str"

\* the words of the text once the mentions are removed, in lower case
CommandParts == SplitWords(CleanText(message.content.text.v), 1)

\* C22: a text message starts a pipeline run exactly when its command word,
\* after removal of the mentions and in any letter case, is "run"; the
\* override of the run is the list of all words after it, upper-cased, in
\* the given order (no override when there is none); "help" is answered with
\* the help text and starts no run.
C22_RunExactlyOnCommandRun ==
    (reaction # <<>> /\ IsTextMessage) =>
        LET parts == CommandParts
            branch == reaction[1].branch
        IN  /\ branch.kind = "run" <=> (parts # <<>> /\ parts[1] = "run")
            /\ branch.kind = "run" =>
                  branch.ticker_override =
                      [i \in 1..(Len(parts) - 1) |-> Upper(parts[i + 1])]
            /\ parts = <<"help">> => branch.kind = "help"

\* C23: _handle_message ends without an unhandled exception for every
\* message: a message that is not a text or cannot be parsed is ignored
\* without a reply, and a text that is neither a run command nor help gets
\* exactly one "Unknown command" reply, after which the handler ends normally.
C23_HandlerEndsNormally ==
    (reaction # <<>> /\ reaction[1].branch.kind \in {"ignored", "unknown"}) =>
        /\ reaction[1].state # "raised"
        /\ reaction[1].branch.kind = "ignored" => reaction[1].replies = <<>>
        /\ (reaction[1].branch.kind = "unknown" /\ reaction[1].state = "ended") =>
              reaction[1].replies = <<"Unknown command">>

\* ------------------------------------------------------------------------
\* Properties of the token cache (SpecToken)
\* ------------------------------------------------------------------------

\* a token is cached and the time is more than 60 seconds before its expiry
CachedAndEarly == token_cache.token # "" /\ clock + 60 < token_cache.expires_at

CallStarts == token_call.state # "requesting" /\ token_call' # token_call
CallAnswered == token_call.state = "requesting" /\ token_call'.state # "requesting"

TokenSteps ==
    /\ CallStarts =>
          /\ token_cache' = token_cache
          /\ token_call'.now = clock
          /\ IF CachedAndEarly
             THEN /\ token_call'.state = "returned"
                  /\ ~token_call'.requested
                  /\ token_call'.value = token_cache.token
             ELSE token_call'.state = "requesting"
    /\ (CallAnswered /\ token_call'.state = "returned") =>
          /\ token_call'.requested
          /\ token_cache'.token = token_call'.value
          /\ token_cache'.expires_at - token_call.now \in {60, 120, 7200}
    /\ (CallAnswered /\ token_call'.state = "raised") => token_cache' = token_cache
    /\ (~CallStarts /\ ~CallAnswered) => token_cache' = token_cache

\* C24: at non-decreasing times, _get_tenant_access_token returns the cached
\* token without a request exactly when a token is cached and the time is
\* more than 60 seconds before its recorded expiry; otherwise it requests a
\* token and records it with expiry = time of the call + lifetime returned;
\* a refresh that fails raises and leaves token and expiry as they were.
C24_CachedUntilMargin == [][TokenSteps]_vars

\* 30 seconds after a token with a lifetime of 120 seconds was recorded, a
\* call has returned it from the cache
C24_Witness ==
    /\ token_call = [state |-> "returned", now |-> 30, requested |-> FALSE, value |-> "t-1"]
    /\ token_cache = [token |-> "t-1", expires_at |-> 120]

\* the cached token is 60 seconds or less before its expiry and a call has
\* requested a new one, which failed and left the cache as it was
C24_RefreshFailed ==
    /\ token_call.state = "raised" /\ token_call.now = 60
    /\ token_cache = [token |-> "t-1", expires_at |-> 120]

\* ------------------------------------------------------------------------
\* Properties of overlapping runs (SpecOverlap)
\* ------------------------------------------------------------------------

\* C26: the limiter belongs to one run. Each run has at most five research
\* invocations in flight and its limiter counts its own invocations only, so
\* R runs have at most 5 * R in flight; and an invocation that waits while
\* fewer than five of its own run are in flight can be admitted as soon as
\* the event loop is free, however many invocations of other runs are in
\* flight.
C26_LimiterPerRun ==
    /\ \A r \in DOMAIN runs :
          /\ runs[r].running <= SemaphoreValue
          /\ runs[r].semaphore = SemaphoreValue - runs[r].running
          /\ (runs[r].waiting > 0 /\ runs[r].running < SemaphoreValue /\ ~OverlapHeld)
                => ENABLED AcquireIn(r)
    /\ AllInFlight(runs) <= SemaphoreValue * Len(runs)

\* two runs overlap, each with five invocations in flight and more waiting
C26_Witness ==
    /\ Len(runs) = 2
    /\ AllInFlight(runs) = 2 * SemaphoreValue
    /\ \A r \in DOMAIN runs : runs[r].running = SemaphoreValue /\ runs[r].waiting > 0

\* ------------------------------------------------------------------------
\* Properties of the section search (SpecSplit)
\* ------------------------------------------------------------------------

Tickers == symbols.tickers

\* the offsets of the narrative at which the pattern of the code matches for tk
Marks(tk) ==
    LET t == Lower(narrative.text)
    IN  {q \in 0..(Len(t) - 1) : MarkerAt(t, q + 1, Lower(tk))}

Least(S) == CHOOSE x \in S : \A y \in S : x <= y

\* position i holds the last occurrence of its symbol in the list, the one
\* whose section the returned dict keeps
KeptAt(i) == \A j \in (i + 1)..Len(Tickers) : Tickers[j] # Tickers[i]

\* where the section of the symbol at position i starts and ends
SpanStart(i) == Least(Marks(Tickers[i]))
SpanEnd(i) ==
    LET later == IF i < Len(Tickers)
                 THEN {q \in Marks(Tickers[i + 1]) : q > SpanStart(i)}
                 ELSE {}
    IN  IF later = {} THEN Len(narrative.text) ELSE Least(later)

OneMarkerEachInOrder ==
    /\ Tickers # <<>>
    /\ \A i \in 1..Len(Tickers) : KeptAt(i) /\ Cardinality(Marks(Tickers[i])) = 1
    /\ \A i \in 1..(Len(Tickers) - 1) : SpanStart(i) < SpanStart(i + 1)

\* C18: when the marker of symbol i is found at offset s, the section of
\* symbol i is the text from s up to the first marker of symbol i+1 strictly
\* after s, or up to the end of the narrative when i is the last symbol or
\* there is no such marker. Hence, when every symbol has exactly one marker
\* and the markers stand in list order, each section ends where the next one
\* starts and the sections, put together in list order, are the narrative
\* from the first marker to its end.
C18_SectionSpans ==
    sections # <<>> =>
        /\ \A i \in 1..Len(Tickers) :
              (KeptAt(i) /\ Marks(Tickers[i]) # {}) =>
                  DictGet(sections[1], Tickers[i])
                      = Slice(narrative.text, SpanStart(i), SpanEnd(i))
        /\ OneMarkerEachInOrder =>
              /\ \A i \in 1..(Len(Tickers) - 1) : SpanEnd(i) = SpanStart(i + 1)
              /\ JoinTexts([i \in 1..Len(Tickers) |-> DictGet(sections[1], Tickers[i])])
                    = Slice(narrative.text, SpanStart(1), Len(narrative.text))

\* AAA and BBB have one marker each, in list order, after some text that
\* belongs to no section, and the section of AAA stops at the marker of BBB
C18_Witness ==
    /\ sections # <<>>
    /\ Tickers = <<"AAA", "BBB">>
    /\ OneMarkerEachInOrder
    /\ SpanStart(1) > 0
    /\ Len(DictGet(sections[1], "AAA")) = SpanStart(2) - SpanStart(1)

\* a markdown heading of one to three '#', then the symbol, possibly after a
\* blank and possibly wrapped in '**', starts at position p of the lowered text
HeadingTokenAt(t, p, tk) ==
    \E hashes \in {"#", "##", "###"}, blank \in {"", " "}, stars \in {"", "**"} :
        /\ EqualAt(t, p, hashes \o blank \o stars \o tk \o stars)
        /\ (p = 1 \/ ~EqualAt(t, p - 1, "#"))

\* the offsets at which a heading-like marker of tk stands: such a heading,
\* or the bold token '**tk**', anywhere and in any letter case
HeadingLikeMarks(tk) ==
    LET t == Lower(narrative.text)
    IN  {q \in 0..(Len(t) - 1) :
            HeadingTokenAt(t, q + 1, Lower(tk)) \/ EqualAt(t, q + 1, "**" \o Lower(tk) \o "**")}

\* C19: a symbol that is introduced somewhere in the narrative by a
\* heading-like marker is located by the section search: the search finds the
\* first such marker and the section of the symbol starts there.
C19_HeadingLikeMarkerLocated ==
    sections # <<>> =>
        \A i \in 1..Len(Tickers) :
            (KeptAt(i) /\ HeadingLikeMarks(Tickers[i]) # {}) =>
                /\ MarkerSearch(narrative.text, Tickers[i]) = Least(HeadingLikeMarks(Tickers[i]))
                /\ IsPrefix(DictGet(sections[1], Tickers[i]),
                            Slice(narrative.text, Least(HeadingLikeMarks(Tickers[i])),
                                  Len(narrative.text)))

\* the verdict words that stand as whole words in the narrative, each with
\* the position where it stands
VerdictWords ==
    LET t == Lower(narrative.text)
    IN  {pw \in (1..Len(t)) \X {"buy", "hold", "sell"} :
            /\ EqualAt(t, pw[1], pw[2])
            /\ (pw[1] = 1 \/ ~IsWord(Ch(t, pw[1] - 1)))
            /\ (pw[1] + Len(pw[2]) > Len(t) \/ ~IsWord(Ch(t, pw[1] + Len(pw[2]))))}

\* the labelled confidence levels of the narrative, each with its position
ConfidenceLabels ==
    LET t == Lower(narrative.text)
    IN  {pl \in (1..Len(t)) \X {"high", "medium", "low"} : ConfidenceAt(t, pl[1], pl[2])}

FirstOf(hits) == (CHOOSE h \in hits : \A g \in hits : h[1] <= g[1])[2]

\* C20: a symbol without a marker has the entire narrative as its section,
\* so its verdict is the first whole-word BUY, HOLD or SELL of the narrative
\* (N/A when there is none) and its confidence the first labelled confidence
\* of the narrative (N/A when there is none), wherever they stand.
C20_UnmarkedReadsFirstAnywhere ==
    sections # <<>> =>
        \A i \in 1..Len(Tickers) :
            Marks(Tickers[i]) = {} =>
                LET section == DictGet(sections[1], Tickers[i])
                IN  /\ section = narrative.text
                    /\ _extract_recommendation(section) =
                          (IF VerdictWords = {} THEN "N/A" ELSE Upper(FirstOf(VerdictWords)))
                    /\ _extract_confidence(section) =
                          (IF ConfidenceLabels = {} THEN "N/A"
                           ELSE Capitalize(FirstOf(ConfidenceLabels)))

\* ZZZ has no marker: its verdict is the BUY written in the section of AAA,
\* its confidence the Low written under the marker of BBB
C20_Witness ==
    /\ sections # <<>>
    /\ Tickers = <<"AAA", "ZZZ", "BBB">>
    /\ Marks("ZZZ") = {} /\ Marks("AAA") # {} /\ Marks("BBB") # {}
    /\ Least(Marks("AAA")) < Least(Marks("BBB"))
    /\ DictGet(sections[1], "ZZZ") = narrative.text
    /\ _extract_recommendation(DictGet(sections[1], "ZZZ")) = "BUY"
    /\ _extract_recommendation(DictGet(sections[1], "BBB")) = "SELL"
    /\ _extract_confidence(DictGet(sections[1], "ZZZ")) = "Low"
    /\ _extract_confidence(DictGet(sections[1], "BBB")) = "Low"

\* ------------------------------------------------------------------------
\* Properties of research_stock (SpecResearch)
\* ------------------------------------------------------------------------

\* C9: when the price lookup gave a current_price, the holding has a numeric
\* avg_cost, both are non-null and avg_cost is not 0, unrealized_pnl_pct is
\* (current_price - avg_cost) / avg_cost * 100 rounded to 2 decimals, -100
\* for a current_price of 0; when either is null it is null.
C9_PnlWheneverPresent ==
    (research # <<>> /\ "value" \in DOMAIN research[1]) =>
        LET current_price == Get(lookups.context[1], "current_price")
            avg_cost == Get(stock, "avg_cost")
            pnl == research[1].value.unrealized_pnl_pct
        IN  /\ (current_price = Null \/ avg_cost = Null) => pnl = Null
            /\ (current_price.t = "num" /\ avg_cost.t = "num" /\ avg_cost.v # 0) =>
                  pnl = Num(PctChange(current_price.v, avg_cost.v))

Threw(name) == "raises" \in DOMAIN replies[name][1]
ErrorOf(name) == [error |-> Str(replies[name][1].raises)]

\* C11: for a holding with numeric shares and avg_cost, whatever the three
\* providers answer, research_stock returns a record; its three sub-records
\* are what the lookups returned, a lookup whose provider threw shows as an
\* error field holding str(e) in its own sub-record, and a lookup that did
\* not throw carries no error field.
C11_LookupFailuresStayInRecord ==
    (research # <<>> /\ stock.shares.t = "num" /\ Get(stock, "avg_cost").t = "num") =>
        /\ "value" \in DOMAIN research[1]
        /\ LET rec == research[1].value
           IN  /\ rec.ticker = stock.ticker
               /\ rec.recent_news = lookups.news[1]
               /\ rec.analyst_recommendations = lookups.recommendations[1]
               /\ rec.price_context = lookups.context[1]
               /\ IF Threw("news") THEN rec.recent_news = <<ErrorOf("news")>>
                  ELSE \A i \in 1..Len(rec.recent_news) :
                          "error" \notin DOMAIN rec.recent_news[i]
               /\ IF Threw("recommendations")
                  THEN rec.analyst_recommendations = ErrorOf("recommendations")
                  ELSE "error" \notin DOMAIN rec.analyst_recommendations
               /\ IF Threw("context") THEN rec.price_context = ErrorOf("context")
                  ELSE "error" \notin DOMAIN rec.price_context

\* the news provider threw, the price provider answered, and a record came back
C11_Witness ==
    /\ research # <<>> /\ "value" \in DOMAIN research[1]
    /\ Get(stock, "avg_cost").t = "num"
    /\ Threw("news") /\ ~Threw("context") /\ ~Threw("recommendations")
    /\ research[1].value.unrealized_pnl_pct # Null
    /\ "error" \in DOMAIN research[1].value.recent_news[1]

\* C27: research_stock never divides by zero; for a holding whose avg_cost
\* is 0 (as in the holding made up for an unknown symbol) or missing, and
\* whenever the price lookup failed or gave no current price, it returns the
\* record with unrealized_pnl_pct null.
C27_NoDivisionByZero ==
    research # <<>> =>
        LET cost == Get(stock, "avg_cost")
            price == Get(lookups.context[1], "current_price")
        IN  /\ "raised" \in DOMAIN research[1] =>
                  research[1].raised # "float division by zero"
            /\ (cost = Num(0) \/ cost = Null \/ Threw("context") \/ price = Null) =>
                  /\ "value" \in DOMAIN research[1]
                  /\ research[1].value.ticker = stock.ticker
                  /\ research[1].value.avg_cost = cost
                  /\ research[1].value.unrealized_pnl_pct = Null

\* the holding made up for an unknown symbol, with a current price at hand
C27_Witness ==
    /\ research # <<>> /\ stock = Synthesized
    /\ Truthy(Get(lookups.context[1], "current_price"))
    /\ "value" \in DOMAIN research[1]
    /\ research[1].value.unrealized_pnl_pct = Null

\* a holding listed without avg_cost, with a current price at hand
C27_MissingCost ==
    /\ research # <<>> /\ stock = NoCost
    /\ Truthy(Get(lookups.context[1], "current_price"))
    /\ "value" \in DOMAIN research[1]
    /\ research[1].value.avg_cost = Null

\* a holding whose avg_cost is a string, the price lookup having failed
C27_PriceLookupFailed ==
    /\ research # <<>> /\ Get(stock, "avg_cost").t = "str"
    /\ Threw("context")
    /\ "value" \in DOMAIN research[1]

\* ------------------------------------------------------------------------
\* Properties of _load_portfolio (SpecLoad)
\* ------------------------------------------------------------------------

Listed(t) == {all_stocks[i] : i \in {j \in 1..Len(all_stocks) : all_stocks[j].ticker = t}}

\* C10: with a non-empty override [S1..Sk], _load_portfolio returns k
\* holdings, the i-th being a holding the portfolio lists for Si when it lists
\* one and the holding (Si, shares 0, avg_cost 0) otherwise; with no override
\* it returns the portfolio as listed.
C10_OverrideOrder ==
    loaded # <<>> =>
        IF ticker_override = <<>> THEN loaded[1] = all_stocks
        ELSE LET want == ticker_override[1]
             IN  want # <<>> =>
                    /\ Len(loaded[1]) = Len(want)
                    /\ \A i \in 1..Len(want) :
                          IF Listed(want[i]) # {}
                          THEN loaded[1][i] \in Listed(want[i])
                          ELSE loaded[1][i] = [ticker |-> want[i], shares |-> Num(0),
                                               avg_cost |-> Num(0)]

\* an unknown symbol ahead of a listed one, against a portfolio of three holdings
C10_Witness ==
    /\ loaded # <<>>
    /\ ticker_override = << <<"ZZZ", "CCC">> >>
    /\ Len(all_stocks) = 3
    /\ loaded[1][1].ticker = "ZZZ" /\ loaded[1][2] = all_stocks[3]

====
